---- MODULE Spec2Model ----
(***************************************************************************)
(* Catalog reconciliation of taffapereira/shopify-automation.              *)
(*                                                                         *)
(*   scripts/processar_v3.py       ShopifyProcessorV4: batch processor     *)
(*                                 with the processed-products ledger      *)
(*   scripts/corrigir_precos.py,   get_all_products: paginated listing     *)
(*   scripts/corrigir_tags.py,     with its handling of HTTP 429           *)
(*   scripts/publicar_produtos.py,                                         *)
(*   scripts/processar_produtos_shopify.py                                 *)
(*   scripts/enhance_existing_products.py  ShopifyEnhancer                 *)
(*   src/shopify/client.py         ShopifyClient.replace_product_images    *)
(*                                                                         *)
(* Every remote call (one HTTP request) is one step; its answer is chosen  *)
(* by the remote.  The ledger write is two steps (open for writing, which  *)
(* truncates the file, then dump), because the process can stop between.   *)
(***************************************************************************)
EXTENDS Integers, Sequences, FiniteSets, TLC

\* ------------------------------------------------------------------ bounds
NProducts == 3         \* products in the remote catalog
MaxVariants == 2       \* product p has p % (MaxVariants + 1) variants
PageSize == 1          \* products per listing page (limit=250 in the code)
MaxRuns == 3           \* batch runs (process starts) in one behaviour
MaxLimite == 1         \* --limite values tried: -1, 0 (None) .. MaxLimite
MaxWaited == 2         \* the count of 30 s sleeps is kept modulo MaxWaited + 1
MaxOldImages == 3      \* images a product has before replacement
MaxNewImages == 2      \* processed images handed to the replacement

\* --------------------------------------------------------------- constants
max_retries == 3       \* corrigir_tags.get_all_products

\* ----------------------------------------------------------------- catalog
Products == 1 .. NProducts

NumVariants(p) == p % (MaxVariants + 1)

VariantId(p, k) == p * 10 + k

NumPages == (NProducts + PageSize - 1) \div PageSize

\* The products of page k of GET products.json, in catalog order.
Page(k) ==
  LET lo == (k - 1) * PageSize + 1
      hi == IF k * PageSize < NProducts THEN k * PageSize ELSE NProducts
  IN  [j \in 1 .. (hi - lo + 1) |-> lo + j - 1]

\* The rel="next" link of page k; 0 is None (no next link).
NextLink(k) == IF k < NumPages THEN k + 1 ELSE 0

RECURSIVE AllPages(_)
AllPages(k) == IF k > NumPages THEN << >> ELSE Page(k) \o AllPages(k + 1)

Range(s) == {s[j] : j \in 1 .. Len(s)}

\* What the remote can answer to one request: a status code, or no answer
\* at all (requests raises ConnectionError / Timeout).
Statuses == {"200", "429", "500", "exc"}

ListerScripts == {"processar_v3", "processar_produtos_shopify",
                  "corrigir_precos", "publicar_produtos", "corrigir_tags"}

VARIABLES
  script,        \* the program that is running
  alive,         \* the process is running (FALSE: killed, or died of an exception)
  stopCause,     \* "none", "killed" (interrupt signal, crash), "exception"
  pc,            \* position in the program
  \* --- paginated listing
  lpc,           \* "idle", "get", "returned", "raised"
  url,           \* page to fetch next; 0 is None
  lprod,         \* produtos accumulated by the listing
  attempt,       \* corrigir_tags: index of the for-attempt loop
  waited,        \* number of time.sleep(30) taken, modulo MaxWaited + 1
  throttleAt,    \* 0: never; k: every request for page k or later gets 429
  \* --- processar_v3
  runNo,         \* number of process starts so far
  reprocessar,   \* --reprocessar
  limite,        \* --limite (0: None; negative: all but the last ones)
  ledgerFile,    \* data/produtos_processados.json
  processados,   \* self.processados
  produtos,      \* the list processar_todos iterates
  idx,           \* 1-based position in produtos
  vi,            \* 1-based position in the product's variants
  calls,         \* update calls issued for the product in hand, in order
  runCalls,      \* products that received an update call in this run
  runOk,         \* products counted in ok in this run (their ledger write returned)
  runErro,       \* products counted in erro in this run
  curVarFail,    \* a variant PUT of the product in hand did not succeed
  ledgerAtStart, \* the ids readable in the ledger file when this run started
  prevPlain,     \* the previous run was plain (no flags) and ran to its end
                 \* on a complete listing
  \* --- enhance_existing_products and ShopifyClient.replace_product_images
  dryRun,        \* --dry-run
  nOld,          \* images the product had when the program started
  nNew,          \* len(processed_images)
  images,        \* the product's remote images, by position
  listedImages,  \* get_product_images returned
  curImages,     \* current_images
  di,            \* 1-based position in current_images
  ui,            \* idx of the upload loop
  uploaded,      \* uploaded
  imagesUpdated, \* what replace_product_images returned: "none" before it ends
  result,        \* what process_single_product did: "none" before it ends
  \* --- one call of a function of the tag, mining, scoring or pricing code
  arg,           \* the arguments of the call
  ret,           \* what the call returned; NoRet before it returns
  \* --- the mining pipeline (mine_products, daily_routine, teste_ciclo_completo)
  mpc,           \* position in the pipeline
  ci,            \* 1-based position in the cards of the page
  minerados,     \* produtos, as buscar_categoria collects and returns them
  mi,            \* 1-based position in produtos of the analysis loop
  pontuados,     \* the candidates handed to analisar_produto, in order
  analisados,    \* produtos_analisados: candidates kept, each with its analysis
  salvos,        \* what main handed to the saving functions
  \* --- corrigir_precos
  precos,        \* the remote price of each variant of each product, in cents
  listados,      \* produtos as get_all_products returned them in this run
  cpc,           \* position in main: "idle", "produto", "put", "done", "raised"
  cidx,          \* 1-based position in produtos
  cv,            \* 1-based position in the variants of the product in hand
  relatorio,     \* what main counted for each product in this run
  putFalhou,     \* a variant PUT of this run was answered with a non-200 status
  parcial,       \* products left with some variants updated by a failed run
  crun           \* number of runs started

listVars == <<lpc, url, lprod, attempt, waited, throttleAt>>
procVars == <<script, alive, stopCause, pc>>
batchVars == <<runNo, reprocessar, limite, ledgerFile, processados, produtos,
               idx, vi, calls, runCalls, runOk,
               runErro, curVarFail, ledgerAtStart, prevPlain>>
imgVars == <<dryRun, nOld, nNew, images, listedImages, curImages, di, ui,
             uploaded, imagesUpdated, result>>
mineVars == <<mpc, ci, minerados, mi, pontuados, analisados, salvos>>
fixVars == <<precos, listados, cpc, cidx, cv, relatorio, putFalhou, parcial,
             crun>>
funVars == <<arg, ret, mineVars, fixVars>>
vars == <<procVars, listVars, batchVars, imgVars, funVars>>

NoArg == [kind |-> "none"]
NoRet == [kind |-> "none"]

\* --------------------------------------------------------- the ledger file
\* The file is absent, holds a JSON document with the ids, or holds text that
\* json.load rejects (empty after open(..., 'w'), or cut short).
FileAbsent == [state |-> "absent", ids |-> {}]
FileTruncated == [state |-> "corrupt", ids |-> {}]
FileWith(ids) == [state |-> "valid", ids |-> ids]

CarregarProgressoVazio(file) == {}

\* _carregar_progresso: the ids of a readable file; set() when the file is
\* absent or json.load raises (bare except: pass).
CarregarProgresso(file) == IF file.state = "valid" THEN file.ids ELSE {}

\* The ids a reader of the file finds in it.
OnDisk(file) == IF file.state = "valid" THEN file.ids ELSE {}

\* ------------------------------------------------------- paginated listing
\* The answers the remote can give to the next request.
Answers == IF throttleAt # 0 /\ url >= throttleAt THEN {"429"} ELSE Statuses

\* r.status_code == 200: extend produtos, follow the rel="next" link.
ListOk ==
  /\ lprod' = lprod \o Page(url)
  /\ url' = NextLink(url)
  /\ lpc' = IF NextLink(url) = 0 THEN "returned" ELSE "get"
  /\ UNCHANGED <<alive, stopCause>>

\* requests.get raises: nothing in the listing or in its callers catches it.
ListRaise ==
  /\ lpc' = "raised"
  /\ alive' = FALSE
  /\ stopCause' = "exception"
  /\ UNCHANGED <<url, lprod, attempt, waited>>

\* get_products of processar_v3 and get_all_products of
\* processar_produtos_shopify: any status but 200 leaves the loop.
ListGetBreak ==
  /\ alive /\ lpc = "get"
  /\ script \in {"processar_v3", "processar_produtos_shopify"}
  /\ \E st \in Answers :
       \/ st = "200" /\ ListOk /\ UNCHANGED <<attempt, waited>>
       \/ st \in {"429", "500"} /\ lpc' = "returned"
            /\ UNCHANGED <<url, lprod, attempt, waited, alive, stopCause>>
       \/ st = "exc" /\ ListRaise
  /\ UNCHANGED <<funVars, script, pc, throttleAt, batchVars, imgVars>>

\* get_all_products of corrigir_precos and publicar_produtos: on 429 sleep
\* 30 s and go round the while loop again with the same url.
ListGetSleep ==
  /\ alive /\ lpc = "get"
  /\ script \in {"corrigir_precos", "publicar_produtos"}
  /\ \E st \in Answers :
       \/ st = "200" /\ ListOk /\ UNCHANGED <<attempt, waited>>
       \/ st = "429" /\ waited' = (waited + 1) % (MaxWaited + 1)
            /\ UNCHANGED <<lpc, url, lprod, attempt, alive, stopCause>>
       \/ st = "500" /\ lpc' = "returned"
            /\ UNCHANGED <<url, lprod, attempt, waited, alive, stopCause>>
       \/ st = "exc" /\ ListRaise
  /\ UNCHANGED <<funVars, script, pc, throttleAt, batchVars, imgVars>>

\* get_all_products of corrigir_tags: for attempt in range(max_retries); the
\* for-else leaves the while loop when every attempt was answered 429.
ListGetRetry ==
  /\ alive /\ lpc = "get"
  /\ script = "corrigir_tags"
  /\ \E st \in Answers :
       \/ st = "200" /\ ListOk /\ attempt' = 0 /\ UNCHANGED waited
       \/ /\ st = "429"
          /\ waited' = (waited + 1) % (MaxWaited + 1)
          /\ attempt' = (IF attempt + 1 < max_retries THEN attempt + 1 ELSE 0)
          /\ lpc' = (IF attempt + 1 < max_retries THEN "get" ELSE "returned")
          /\ UNCHANGED <<url, lprod, alive, stopCause>>
       \/ st = "500" /\ url' = 0 /\ lpc' = "returned" /\ attempt' = 0
            /\ UNCHANGED <<lprod, waited, alive, stopCause>>
       \/ st = "exc" /\ ListRaise
  /\ UNCHANGED <<funVars, script, pc, throttleAt, batchVars, imgVars>>

\* ------------------------------------------------------------ processar_v3
JaProcessadoNunca(pid, proc) == FALSE

\* line 476: the product is already in the ledger.
JaProcessado(pid, proc) == pid \in proc

\* lines 554-555: drop the products already processed, unless reprocessing.
Filtrar(prods, proc, rp) ==
  IF rp THEN prods ELSE SelectSeq(prods, LAMBDA p : ~JaProcessado(p, proc))

\* lines 557-558: produtos[:limite] when a limit was given ("if limite:"
\* is false for None and for 0).  The slice keeps the first lim products
\* for a positive lim and drops the last -lim products for a negative one.
Limitar(prods, lim) ==
  IF lim = 0 THEN prods
  ELSE IF lim > 0
         THEN (IF lim < Len(prods) THEN SubSeq(prods, 1, lim) ELSE prods)
         ELSE (IF Len(prods) + lim > 0
                 THEN SubSeq(prods, 1, Len(prods) + lim) ELSE << >>)

\* lines 547-548: --reprocessar empties the in-memory ledger.
LedgerForRun(loaded, rp) == IF rp THEN {} ELSE loaded

Pid == produtos[idx]

\* The for loop of processar_todos moves to the next product, or ends.
NextPc == IF idx < Len(produtos) THEN "produto" ELSE "done"
NextIdx == IF idx < Len(produtos) THEN idx + 1 ELSE idx

Call(op, id, pos) == [op |-> op, id |-> id, pos |-> pos]

\* __main__: ShopifyProcessorV4() loads the ledger, processar_todos starts
\* (lines 541-551) and get_products is entered.
Start ==
  /\ script = "processar_v3"
  /\ runNo < MaxRuns
  /\ pc \in {"init", "done"} \/ ~alive
  /\ \E rp \in BOOLEAN, lim \in -1 .. MaxLimite :
       /\ reprocessar' = rp
       /\ limite' = lim
       /\ processados' = LedgerForRun(CarregarProgresso(ledgerFile), rp)
  /\ ledgerAtStart' = OnDisk(ledgerFile)
  /\ prevPlain' = (/\ runNo > 0 /\ alive /\ pc = "done"
                   /\ ~reprocessar /\ limite = 0 /\ lprod = AllPages(1))
  /\ runNo' = runNo + 1
  /\ alive' = TRUE /\ stopCause' = "none" /\ pc' = "listing"
  /\ lpc' = "get" /\ url' = 1 /\ lprod' = << >> /\ attempt' = 0 /\ waited' = 0
  /\ produtos' = << >> /\ idx' = 0 /\ vi' = 0 /\ calls' = << >>
  /\ runCalls' = {} /\ runOk' = {} /\ runErro' = {} /\ curVarFail' = FALSE
  /\ UNCHANGED <<funVars, script, throttleAt, ledgerFile, imgVars>>

\* lines 553-565: filter, limit, and leave when nothing is left.
Filter ==
  /\ script = "processar_v3" /\ alive /\ pc = "listing" /\ lpc = "returned"
  /\ LET ps == Limitar(Filtrar(lprod, processados, reprocessar), limite)
     IN  /\ produtos' = ps
         /\ pc' = IF Len(ps) = 0 THEN "done" ELSE "produto"
         /\ idx' = IF Len(ps) = 0 THEN 0 ELSE 1
  /\ lpc' = "idle"
  /\ UNCHANGED <<funVars, script, alive, stopCause, url, lprod, attempt, waited,
                 throttleAt, runNo, reprocessar, limite, ledgerFile,
                 processados, vi, calls, runCalls, runOk, runErro, curVarFail,
                 ledgerAtStart, prevPlain,
                 imgVars>>

\* processar_produto, lines 470-510 and 537-539: the skip of a processed
\* product, else the product-level PUT (update_product, lines 364-368).
UpdateProduct ==
  /\ script = "processar_v3" /\ alive /\ pc = "produto"
  /\ curVarFail' = FALSE
  /\ IF JaProcessado(Pid, processados)
       THEN /\ runOk' = runOk \cup {Pid}
            /\ pc' = NextPc /\ idx' = NextIdx
            /\ UNCHANGED <<vi, calls, runCalls, runErro>>
       ELSE \E st \in Statuses :
            /\ calls' = << Call("PUT_product", Pid, 0) >>
            /\ runCalls' = runCalls \cup {Pid}
            /\ IF st = "200"
                 THEN /\ pc' = IF NumVariants(Pid) > 0 THEN "variante" ELSE "salvar"
                      /\ vi' = 1
                      /\ UNCHANGED <<idx, runOk, runErro>>
                 ELSE /\ runErro' = runErro \cup {Pid}
                      /\ pc' = NextPc /\ idx' = NextIdx
                      /\ UNCHANGED <<vi, runOk>>
  /\ UNCHANGED <<funVars, script, alive, stopCause, listVars, runNo, reprocessar,
                 limite, ledgerFile, processados, produtos, ledgerAtStart,
                 prevPlain, imgVars>>

\* processar_produto, lines 512-527: one PUT per variant (update_variant,
\* lines 370-374); the value update_variant returns is not looked at.
UpdateVariant ==
  /\ script = "processar_v3" /\ alive /\ pc = "variante"
  /\ \E st \in Statuses :
       /\ calls' = Append(calls, Call("PUT_variant", VariantId(Pid, vi), 0))
       /\ curVarFail' = (curVarFail \/ st # "200")
       /\ IF st = "exc"
            THEN /\ runErro' = runErro \cup {Pid}
                 /\ pc' = NextPc /\ idx' = NextIdx /\ UNCHANGED vi
            ELSE /\ pc' = IF vi < NumVariants(Pid) THEN "variante" ELSE "salvar"
                 /\ vi' = IF vi < NumVariants(Pid) THEN vi + 1 ELSE vi
                 /\ UNCHANGED <<idx, runErro>>
  /\ UNCHANGED <<funVars, script, alive, stopCause, listVars, runNo, reprocessar,
                 limite, ledgerFile, processados, produtos, runCalls,
                 runOk, ledgerAtStart, prevPlain, imgVars>>

\* _salvar_progresso, lines 280-285: add the id to self.processados, then
\* open the file for writing, which truncates it.  mkdir or open can raise.
SalvarOpen ==
  /\ script = "processar_v3" /\ alive /\ pc = "salvar"
  /\ processados' = processados \cup {Pid}
  /\ \E io \in {"ok", "oserror"} :
       IF io = "ok"
         THEN /\ ledgerFile' = FileTruncated
              /\ pc' = "dump"
              /\ UNCHANGED <<idx, runErro>>
         ELSE /\ runErro' = runErro \cup {Pid}
              /\ pc' = NextPc /\ idx' = NextIdx
              /\ UNCHANGED ledgerFile
  /\ UNCHANGED <<funVars, script, alive, stopCause, listVars, runNo, reprocessar,
                 limite, produtos, vi, calls, runCalls, runOk, curVarFail,
                 ledgerAtStart, prevPlain, imgVars>>

\* _salvar_progresso, lines 286-289, and the return True of line 536: the
\* whole in-memory ledger is written.  The write can raise (disk full).
SalvarDump ==
  /\ script = "processar_v3" /\ alive /\ pc = "dump"
  /\ \E io \in {"ok", "oserror"} :
       IF io = "ok"
         THEN /\ ledgerFile' = FileWith(processados)
              /\ runOk' = runOk \cup {Pid}
              /\ UNCHANGED runErro
         ELSE /\ runErro' = runErro \cup {Pid}
              /\ UNCHANGED <<ledgerFile, runOk>>
  /\ pc' = NextPc /\ idx' = NextIdx
  /\ UNCHANGED <<funVars, script, alive, stopCause, listVars, runNo, reprocessar,
                 limite, processados, produtos, vi, calls, runCalls,
                 curVarFail, ledgerAtStart, prevPlain, imgVars>>

\* The process stops where it is: a crash, or an interrupt signal.
\* KeyboardInterrupt is no Exception, so the except of line 577 lets it
\* through and nothing else handles it.
Kill ==
  /\ script = "processar_v3" /\ alive
  /\ pc \in {"listing", "produto", "variante", "salvar", "dump"}
  /\ alive' = FALSE
  /\ stopCause' = "killed"
  /\ UNCHANGED <<funVars, script, pc, listVars, batchVars, imgVars>>

\* ------------------------------ replace_product_images (src/shopify/client.py)
OldImageId(k) == k
NewImageId(k) == 100 + k

\* The remote places a created image at the position asked for, or last
\* when the position is beyond the end.
InsertAt(seq, pos, x) ==
  IF pos > Len(seq) THEN Append(seq, x)
  ELSE IF pos < 1 THEN << x >> \o seq
  ELSE SubSeq(seq, 1, pos - 1) \o << x >> \o SubSeq(seq, pos, Len(seq))

Without(seq, x) == SelectSeq(seq, LAMBDA y : y # x)

PositionFromZero(k) == k - 1

\* line 257: enumerate(processed_images, start=1) numbers the positions.
Position(k) == k

AfterImagesSkipText(s) ==
  IF s = "enhance_existing_products" THEN "e_variant" ELSE "done"

\* enhance_existing_products, lines 229-236: whatever the replacement
\* returned, the text update comes next; a direct caller is done.
AfterImages(s) == IF s = "enhance_existing_products" THEN "e_put" ELSE "done"

\* The replacement moves on once the loop in hand has nothing left:
\* the deletes (lines 244-251), the uploads (257-275), the return (277-284).
ReplNext(nDel, nUp) ==
  IF nDel > 0 THEN "r_delete" ELSE IF nUp > 0 THEN "r_upload" ELSE "r_return"

\* lines 277-284: success = uploaded == len(processed_images).
ReplReturn(next, up) ==
  /\ pc' = IF next = "r_return" THEN AfterImages(script) ELSE next
  /\ imagesUpdated' = IF next = "r_return"
                        THEN (IF up = nNew THEN "true" ELSE "false")
                        ELSE imagesUpdated
  /\ result' = IF next = "r_return" /\ script # "enhance_existing_products"
                 THEN "success" ELSE result

\* lines 239-241 and 286-290: get_product_images; _request raises on an HTTP
\* error status and on a transport error, and the outer except returns False.
ReplGet ==
  /\ alive /\ pc = "r_get"
  /\ calls' = Append(calls, Call("GET_images", Pid, 0))
  /\ \E r \in {"ok", "exc"} :
       IF r = "ok"
         THEN /\ curImages' = images
              /\ listedImages' = TRUE
              /\ di' = 1 /\ ui' = 1
              /\ ReplReturn(ReplNext(Len(images), nNew), 0)
         ELSE /\ imagesUpdated' = "false"
              /\ pc' = AfterImages(script)
              /\ result' = IF script # "enhance_existing_products"
                             THEN "success" ELSE result
              /\ UNCHANGED <<curImages, listedImages, di, ui>>
  /\ UNCHANGED <<funVars, script, alive, stopCause, listVars, runNo, reprocessar,
                 limite, ledgerFile, processados, produtos, idx, vi, runCalls,
                 runOk, runErro, curVarFail,
                 ledgerAtStart, prevPlain, dryRun, nOld, nNew, images,
                 uploaded>>

\* lines 247-249: delete_product_image (lines 185-192) for each current
\* image; a failed delete is printed and the loop goes on.
ReplDelete ==
  /\ alive /\ pc = "r_delete"
  /\ calls' = Append(calls, Call("DELETE_image", curImages[di], 0))
  /\ \E r \in {"ok", "exc"} :
       images' = IF r = "ok" THEN Without(images, curImages[di]) ELSE images
  /\ di' = di + 1
  /\ ReplReturn(ReplNext(Len(curImages) - di, nNew), 0)
  /\ UNCHANGED <<funVars, script, alive, stopCause, listVars, runNo, reprocessar,
                 limite, ledgerFile, processados, produtos, idx, vi, runCalls,
                 runOk, runErro, curVarFail,
                 ledgerAtStart, prevPlain, dryRun, nOld, nNew,
                 listedImages, curImages, ui, uploaded>>

\* lines 257-275: create_product_image (lines 194-214) for each processed
\* image with position=idx; a failed upload is printed and the loop goes on.
ReplUpload ==
  /\ alive /\ pc = "r_upload"
  /\ calls' = Append(calls, Call("POST_image", NewImageId(ui), Position(ui)))
  /\ \E r \in {"ok", "exc"} :
       LET up == IF r = "ok" THEN uploaded + 1 ELSE uploaded
       IN  /\ images' = IF r = "ok"
                          THEN InsertAt(images, Position(ui), NewImageId(ui))
                          ELSE images
           /\ uploaded' = up
           /\ ReplReturn(ReplNext(0, nNew - ui), up)
  /\ ui' = ui + 1
  /\ UNCHANGED <<funVars, script, alive, stopCause, listVars, runNo, reprocessar,
                 limite, ledgerFile, processados, produtos, idx, vi, runCalls,
                 runOk, runErro, curVarFail,
                 ledgerAtStart, prevPlain, dryRun, nOld, nNew,
                 listedImages, curImages, di>>

\* ----------------------------- enhance_existing_products.process_single_product
\* lines 157-229: no images -> {'success': False}; produto['variants'][0] of
\* a product without variants raises (line 204); --dry-run updates nothing.
EnhStart ==
  /\ script = "enhance_existing_products" /\ alive /\ pc = "e_start"
  /\ IF nOld = 0 THEN result' = "fail" /\ pc' = "done"
     ELSE IF NumVariants(Pid) = 0 THEN result' = "exception" /\ pc' = "done"
     ELSE IF dryRun THEN result' = "success" /\ pc' = "done"
     ELSE result' = result /\ pc' = "r_get"
  /\ UNCHANGED <<funVars, script, alive, stopCause, listVars, batchVars, dryRun, nOld,
                 nNew, images, listedImages, curImages, di, ui, uploaded,
                 imagesUpdated>>

\* lines 236-257: the PUT of title, body_html and tags; its status is only
\* printed.  An exception of requests leaves process_single_product.
EnhPutProduct ==
  /\ script = "enhance_existing_products" /\ alive /\ pc = "e_put"
  /\ calls' = Append(calls, Call("PUT_product", Pid, 0))
  /\ runCalls' = runCalls \cup {Pid}
  /\ \E st \in Statuses :
       IF st = "exc"
         THEN pc' = "done" /\ result' = "exception"
         ELSE pc' = "e_variant" /\ result' = result
  /\ vi' = 1
  /\ UNCHANGED <<funVars, script, alive, stopCause, listVars, runNo, reprocessar,
                 limite, ledgerFile, processados, produtos, idx, runOk,
                 runErro, curVarFail, ledgerAtStart, prevPlain,
                 dryRun, nOld, nNew, images, listedImages, curImages, di, ui,
                 uploaded, imagesUpdated>>

\* lines 264-298: one PUT per variant; a status other than 200 is only not
\* counted.  After the last one: return {'success': True}.
EnhPutVariant ==
  /\ script = "enhance_existing_products" /\ alive /\ pc = "e_variant"
  /\ calls' = Append(calls, Call("PUT_variant", VariantId(Pid, vi), 0))
  /\ \E st \in Statuses :
       /\ curVarFail' = (curVarFail \/ st # "200")
       /\ IF st = "exc"
            THEN pc' = "done" /\ result' = "exception" /\ vi' = vi
            ELSE IF vi < NumVariants(Pid)
                   THEN pc' = "e_variant" /\ result' = result /\ vi' = vi + 1
                   ELSE pc' = "done" /\ result' = "success" /\ vi' = vi
  /\ UNCHANGED <<funVars, script, alive, stopCause, listVars, runNo, reprocessar,
                 limite, ledgerFile, processados, produtos, idx, runCalls,
                 runOk, runErro, ledgerAtStart, prevPlain,
                 dryRun, nOld, nNew, images, listedImages, curImages, di, ui,
                 uploaded, imagesUpdated>>

\* ----------------------------------------------------------- specifications
NoImageWork ==
  /\ dryRun = FALSE /\ nOld = 0 /\ nNew = 0 /\ images = << >>
  /\ listedImages = FALSE /\ curImages = << >> /\ di = 0 /\ ui = 0
  /\ uploaded = 0 /\ imagesUpdated = "none" /\ result = "none"

NoMining ==
  /\ mpc = "idle" /\ ci = 0 /\ minerados = << >> /\ mi = 0
  /\ pontuados = << >> /\ analisados = << >> /\ salvos = << >>

NoFix ==
  /\ precos = << >> /\ listados = << >> /\ cpc = "idle" /\ cidx = 0 /\ cv = 0
  /\ relatorio = << >> /\ putFalhou = FALSE /\ parcial = {} /\ crun = 0

NoFunctionCall == arg = NoArg /\ ret = NoRet /\ NoMining /\ NoFix

InitBatch ==
  /\ script = "processar_v3"
  /\ alive = FALSE /\ stopCause = "none" /\ pc = "init"
  /\ lpc = "idle" /\ url = 0 /\ lprod = << >> /\ attempt = 0 /\ waited = 0
  /\ throttleAt = 0
  /\ runNo = 0 /\ reprocessar = FALSE /\ limite = 0
  /\ ledgerFile = FileAbsent /\ processados = {}
  /\ produtos = << >> /\ idx = 0 /\ vi = 0 /\ calls = << >>
  /\ runCalls = {}
  /\ runOk = {} /\ runErro = {} /\ curVarFail = FALSE
  /\ ledgerAtStart = {} /\ prevPlain = FALSE
  /\ NoImageWork
  /\ NoFunctionCall

\* One product handed to process_single_product, or to a direct call of
\* replace_product_images.  The processed images of the enhancer come from
\* the product's own images, so they are no more than those.
InitImages ==
  /\ script \in {"enhance_existing_products", "shopify_client"}
  /\ alive = TRUE /\ stopCause = "none"
  /\ pc = IF script = "shopify_client" THEN "r_get" ELSE "e_start"
  /\ lpc = "idle" /\ url = 0 /\ lprod = << >> /\ attempt = 0 /\ waited = 0
  /\ throttleAt = 0
  /\ runNo = 0 /\ reprocessar = FALSE /\ limite = 0
  /\ ledgerFile = FileAbsent /\ processados = {}
  /\ \E p \in Products : produtos = << p >>
  /\ idx = 1 /\ vi = 0 /\ calls = << >>
  /\ runCalls = {}
  /\ runOk = {} /\ runErro = {} /\ curVarFail = FALSE
  /\ ledgerAtStart = {} /\ prevPlain = FALSE
  /\ dryRun \in (IF script = "shopify_client" THEN {FALSE} ELSE BOOLEAN)
  /\ nOld \in 0 .. MaxOldImages
  /\ nNew \in 0 .. MaxNewImages
  /\ script = "enhance_existing_products" => nNew <= nOld
  /\ images = [k \in 1 .. nOld |-> OldImageId(k)]
  /\ listedImages = FALSE /\ curImages = << >> /\ di = 0 /\ ui = 0
  /\ uploaded = 0 /\ imagesUpdated = "none" /\ result = "none"
  /\ NoFunctionCall

Init == InitBatch \/ InitImages

Next ==
  \/ Start
  \/ ListGetBreak
  \/ Filter
  \/ UpdateProduct
  \/ UpdateVariant
  \/ SalvarOpen
  \/ SalvarDump
  \/ Kill
  \/ EnhStart
  \/ ReplGet
  \/ ReplDelete
  \/ ReplUpload
  \/ EnhPutProduct
  \/ EnhPutVariant

Spec == Init /\ [][Next]_vars

\* One call of a listing function, by any of the scripts that have one.
InitList ==
  /\ script \in ListerScripts
  /\ alive = TRUE /\ stopCause = "none" /\ pc = "listing"
  /\ lpc = "get" /\ url = 1 /\ lprod = << >> /\ attempt = 0 /\ waited = 0
  /\ throttleAt \in 0 .. NumPages
  /\ runNo = 0 /\ reprocessar = FALSE /\ limite = 0
  /\ ledgerFile = FileAbsent /\ processados = {}
  /\ produtos = << >> /\ idx = 0 /\ vi = 0 /\ calls = << >>
  /\ runCalls = {}
  /\ runOk = {} /\ runErro = {} /\ curVarFail = FALSE
  /\ ledgerAtStart = {} /\ prevPlain = FALSE
  /\ NoImageWork
  /\ NoFunctionCall

NextList == ListGetBreak \/ ListGetSleep \/ ListGetRetry

SpecList == InitList /\ [][NextList]_vars

\* The listing loop is sequential code: while the process is alive its next
\* request is made.
SpecListFair == SpecList /\ WF_vars(NextList)

\* ------------------------------------------------------------------ claims
ImageOps == {"GET_images", "DELETE_image", "POST_image"}

CallsOf(ops) == SelectSeq(calls, LAMBDA c : c.op \in ops)

ListedAll == lprod = AllPages(1)

\* C1: a product whose id is in the ledger when a run without --reprocessar
\* starts receives no update call in that run (no product PUT, no variant
\* PUT) and stays in the ledger.
C1_LedgerSkip ==
  (runNo > 0 /\ ~reprocessar) =>
    \A p \in ledgerAtStart :
      /\ p \notin runCalls
      /\ \A j \in 1 .. Len(calls) :
           calls[j].id # p /\ calls[j].id \div 10 # p
      /\ p \in processados

\* A run without --reprocessar that listed a product of the ledger, passed
\* it over and processed another one.
C1_Witness ==
  /\ runNo > 0 /\ ~reprocessar /\ alive /\ pc = "done"
  /\ \E p \in ledgerAtStart : p \in Range(lprod) /\ p \notin runCalls
  /\ runCalls # {}

\* Two complete runs without --reprocessar and without --limite, each with a
\* complete listing: the state at the end of the second.
TwoPlainRuns ==
  /\ runNo >= 2 /\ alive /\ pc = "done"
  /\ ~reprocessar /\ limite = 0 /\ ListedAll
  /\ prevPlain

\* C2 as stated: the second of two runs issues no update call at all.
C2_Original == TwoPlainRuns => runCalls = {}

\* C2 amended: the second of two runs issues update calls for exactly the
\* products that the first run left out of the persisted ledger, so none
\* when the first run recorded every product.
C2_SecondRunOnlyUnrecorded ==
  TwoPlainRuns => runCalls = Products \ ledgerAtStart

\* The second run found every product in the ledger and issued no call.
C2_Witness == TwoPlainRuns /\ Products \subseteq ledgerAtStart /\ runCalls = {}

\* C3: a product is in the ledger only if each of its update calls
\* succeeded: while a product with a failed variant PUT is in hand, its id
\* is not in the ledger.
C3_LedgerOnlyAfterAllCallsOk ==
  (script = "processar_v3" /\ pc \in {"variante", "salvar", "dump"} /\ curVarFail)
    => Pid \notin processados

\* C4: when the process stops during a batch, every product completed in
\* this run (its ledger write returned) is in the ledger the next run loads.
C4_CrashKeepsCompleted ==
  (runNo > 0 /\ ~alive) => runOk \subseteq CarregarProgresso(ledgerFile)

\* C5: a listing against a remote that answers 429 to every request ends.
C5_ThrottledListingEnds == (throttleAt = 1) => <>(lpc # "get")

\* C6: a listing that returns normally returns the products of every page.
C6_ListingComplete == (lpc = "returned") => ListedAll

\* C7: a product counted as an error in this run is not in the ledger.
C7_FailureNotInLedger == \A p \in runErro : p \notin processados

\* C8: an interrupt never stops the batch between the product-level update
\* of a product and the update of the last of its variants.
C8_InterruptNotMidUpdate ==
  (~alive /\ stopCause = "killed") =>
    ~(/\ pc = "variante"
      /\ calls[1] = Call("PUT_product", Pid, 0)
      /\ Len(CallsOf({"PUT_variant"})) < NumVariants(Pid))

\* The product in hand has had all the update calls its program makes.
AllCallsMade ==
  \/ script = "processar_v3" /\ pc \in {"salvar", "dump"}
  \/ script = "enhance_existing_products" /\ result = "success" /\ ~dryRun

\* C9 as stated: the product-level call, then the variant calls, then the
\* image replacement: no image call comes before a product or variant call.
C9_Original ==
  \A i, j \in 1 .. Len(calls) :
    (calls[i].op \in {"DELETE_image", "POST_image"} /\ calls[j].op \in {"PUT_product", "PUT_variant"})
      => j < i

\* The place of each kind of call in the order the programs follow.
Rank(c) ==
  CASE c.op = "GET_images" -> 0
    [] c.op = "DELETE_image" -> 1
    [] c.op = "POST_image" -> 2
    [] c.op = "PUT_product" -> 3
    [] c.op = "PUT_variant" -> 4

\* C9 amended: the calls for a product come in the order image replacement
\* (the enhancer only; processar_v3 replaces no image), then one
\* product-level call, then one call per variant in the variants' order; no
\* variant call precedes the product-level call.
C9_ImagesThenProductThenVariants ==
  /\ \A i, j \in 1 .. Len(calls) : i < j => Rank(calls[i]) <= Rank(calls[j])
  /\ Len(CallsOf({"PUT_product"})) <= 1
  /\ script = "processar_v3" => CallsOf(ImageOps) = << >>
  /\ AllCallsMade =>
       /\ CallsOf({"PUT_product"}) = << Call("PUT_product", Pid, 0) >>
       /\ CallsOf({"PUT_variant"}) =
            [k \in 1 .. NumVariants(Pid) |-> Call("PUT_variant", VariantId(Pid, k), 0)]
       /\ script = "enhance_existing_products" => calls[1].op = "GET_images"

\* The enhancer finished a product with image, product and variant calls.
C9_Witness ==
  /\ script = "enhance_existing_products" /\ result = "success" /\ ~dryRun
  /\ \E i, j, k \in 1 .. Len(calls) :
       /\ i < j /\ j < k
       /\ calls[i].op = "POST_image"
       /\ calls[j].op = "PUT_product"
       /\ calls[k].op = "PUT_variant"

\* N deletes of the existing images, then M creates at positions 1..M.
DeletesThenCreates(n, m) ==
  [j \in 1 .. (n + m) |->
     IF j <= n THEN Call("DELETE_image", OldImageId(j), 0)
     ELSE Call("POST_image", NewImageId(j - n), j - n)]

\* C10 as stated: a replacement on a product with N images and M new ones
\* issues N deletes and then M creates at positions 1..M.
C10_Original ==
  (imagesUpdated # "none") =>
    CallsOf({"DELETE_image", "POST_image"}) = DeletesThenCreates(nOld, nNew)

\* C10 amended: when the listing of the product's current images succeeds,
\* the replacement issues exactly N deletes, all before any create, and
\* then exactly M creates at positions 1..M in the order of the new images;
\* when that listing fails it issues no delete, no create and returns False.
C10_DeletesThenCreates ==
  /\ (imagesUpdated # "none" /\ listedImages) =>
       CallsOf({"DELETE_image", "POST_image"}) = DeletesThenCreates(nOld, nNew)
  /\ (imagesUpdated # "none" /\ ~listedImages) =>
       /\ CallsOf({"DELETE_image", "POST_image"}) = << >>
       /\ imagesUpdated = "false"

\* Scenario E: 3 existing images, 2 new ones, the replacement has returned.
C10_Witness ==
  /\ imagesUpdated # "none" /\ listedImages
  /\ nOld = 3 /\ nNew = 2
  /\ Len(CallsOf({"DELETE_image"})) = 3 /\ Len(CallsOf({"POST_image"})) = 2

\* ==================================================================== tags
\* A program at rest while one function of it is called.
IdleProgram ==
  /\ alive = TRUE /\ stopCause = "none" /\ pc = "call"
  /\ lpc = "idle" /\ url = 0 /\ lprod = << >> /\ attempt = 0 /\ waited = 0
  /\ throttleAt = 0
  /\ runNo = 0 /\ reprocessar = FALSE /\ limite = 0
  /\ ledgerFile = FileAbsent /\ processados = {}
  /\ produtos = << >> /\ idx = 0 /\ vi = 0 /\ calls = << >>
  /\ runCalls = {}
  /\ runOk = {} /\ runErro = {} /\ curVarFail = FALSE
  /\ ledgerAtStart = {} /\ prevPlain = FALSE
  /\ NoImageWork

restVars == <<procVars, listVars, batchVars, imgVars, mineVars, fixVars>>

\* A title is the set of its words.
TitleWords == {"Earring", "ring", "Handbag", "gold", "pearl", "watch"}

\* str.lower() on the words of the vocabulary.
Lower(w) ==
  CASE w = "Earring" -> "earring"
    [] w = "Handbag" -> "handbag"
    [] w = "Nike" -> "nike"
    [] w = "Rolex" -> "rolex"
    [] OTHER -> w

\* kw in w, for a keyword kw and a lower-case word w of the vocabulary.
Within(kw, w) ==
  \/ kw = w
  \/ <<kw, w>> \in {<<"ring", "earring">>, <<"bag", "handbag">>,
                    <<"brand", "branded">>}

\* kw in titulo.lower()
InTitulo(kw, titulo) == \E w \in titulo : Within(kw, Lower(w))

\* processar_v3 CATEGORIAS_MAP, in the order of the dict.
CATEGORIAS_MAP ==
  << <<"earring", "brincos">>, <<"brinco", "brincos">>, <<"hoop", "brincos">>,
     <<"stud", "brincos">>,
     <<"necklace", "colares">>, <<"colar", "colares">>, <<"pendant", "colares">>,
     <<"chain", "colares">>,
     <<"bracelet", "pulseiras">>, <<"pulseira", "pulseiras">>,
     <<"bangle", "pulseiras">>, <<"cuff", "pulseiras">>,
     <<"ring", "aneis">>, <<"anel", "aneis">>,
     <<"watch", "relogios">>, <<"relógio", "relogios">>,
     <<"sunglasses", "oculos">>, <<"glasses", "oculos">>, <<"óculos", "oculos">>,
     <<"bag", "bolsas">>, <<"handbag", "bolsas">>, <<"purse", "bolsas">>,
     <<"tote", "bolsas">>, <<"bucket", "bolsas">>,
     <<"wallet", "carteiras">>, <<"card holder", "carteiras">> >>

\* processar_v2 CATEGORIAS, in the order of the dict.
CATEGORIAS ==
  << <<"earring", "brincos">>, <<"brinco", "brincos">>,
     <<"necklace", "colares">>, <<"colar", "colares">>, <<"pendant", "colares">>,
     <<"bracelet", "pulseiras">>, <<"pulseira", "pulseiras">>,
     <<"bangle", "pulseiras">>,
     <<"ring", "aneis">>, <<"anel", "aneis">>,
     <<"watch", "relogios">>, <<"relógio", "relogios">>,
     <<"sunglasses", "oculos">>, <<"glasses", "oculos">>, <<"óculos", "oculos">>,
     <<"bag", "bolsas">>, <<"handbag", "bolsas">>, <<"purse", "bolsas">>,
     <<"tote", "bolsas">>,
     <<"wallet", "carteiras">>, <<"card holder", "carteiras">> >>

\* detectar_categoria: the category of the first keyword found in the title.
detectar_categoria(map, titulo) ==
  LET hits == {i \in 1 .. Len(map) : InTitulo(map[i][1], titulo)}
  IN  IF hits = {} THEN "acessorios"
      ELSE map[CHOOSE i \in hits : \A j \in hits : i <= j][2]

\* f"cat:{categoria}"
CatTag(categoria) ==
  CASE categoria = "brincos" -> "cat:brincos"
    [] categoria = "colares" -> "cat:colares"
    [] categoria = "pulseiras" -> "cat:pulseiras"
    [] categoria = "aneis" -> "cat:aneis"
    [] categoria = "relogios" -> "cat:relogios"
    [] categoria = "oculos" -> "cat:oculos"
    [] categoria = "bolsas" -> "cat:bolsas"
    [] categoria = "carteiras" -> "cat:carteiras"
    [] categoria = "acessorios" -> "cat:acessorios"

\* t.startswith('cat:'), for the tags of the vocabulary.
StartsWithCat(t) ==
  t \in {"cat:brincos", "cat:colares", "cat:pulseiras", "cat:aneis",
         "cat:relogios", "cat:oculos", "cat:bolsas", "cat:carteiras",
         "cat:acessorios", "cat:aneis-ouro"}

\* The material tags of processar_v3.gerar_tags, lines 410-421.
MaterialTagsV3(titulo) ==
  {m[2] : m \in {r \in { <<{"gold", "dourad", "ouro", "18k"}, "dourado">>,
                          <<{"silver", "prata"}, "prata">>,
                          <<{"crystal", "cristal", "zirconia"}, "cristal">>,
                          <<{"pearl", "perola"}, "perola">>,
                          <<{"leather", "couro"}, "couro">>,
                          <<{"steel", "aço", "inox"}, "aco-inox">> } :
                   \E x \in r[1] : InTitulo(x, titulo)}}

\* The material tags of processar_v2.gerar_tags, lines 256-267.
MaterialTagsV2(titulo) ==
  {m[2] : m \in {r \in { <<{"gold", "dourad", "ouro", "18k"}, "dourado">>,
                          <<{"silver", "prata", "prateado"}, "prata">>,
                          <<{"crystal", "cristal", "zirconia"}, "cristal">>,
                          <<{"pearl", "perola", "pérola"}, "perola">>,
                          <<{"leather", "couro"}, "couro">>,
                          <<{"steel", "aço", "inox"}, "aco-inox">> } :
                   \E x \in r[1] : InTitulo(x, titulo)}}

\* processar_v3.gerar_tags: the set that ", ".join(list(set(tags))) writes.
gerar_tags(titulo, categoria) ==
  {CatTag(categoria), "feminino", "moda", "twp", "processado"}
    \cup MaterialTagsV3(titulo)

\* processar_v2.gerar_tags: the category itself is the first tag.
gerar_tags_v2(titulo, categoria) ==
  {categoria, "feminino", "acessorios", "moda", "twp"}
    \cup MaterialTagsV2(titulo)

\* The product_type values tried, as the remote holds them.
ProductTypes == {"Brincos", " aneis ", "anéis", "", "Chapéus"}

\* product_type.lower().strip() on those values.
LowerStrip(t) ==
  CASE t = "Brincos" -> "brincos"
    [] t = " aneis " -> "aneis"
    [] t = "Chapéus" -> "chapéus"
    [] OTHER -> t

\* TYPE_TO_CAT.get(product_type, 'cat:acessorios')
TYPE_TO_CAT(product_type) ==
  CASE product_type = "brincos" -> "cat:brincos"
    [] product_type = "colares" -> "cat:colares"
    [] product_type = "pulseiras" -> "cat:pulseiras"
    [] product_type \in {"aneis", "anéis"} -> "cat:aneis"
    [] product_type \in {"relogios", "relógios"} -> "cat:relogios"
    [] product_type \in {"oculos", "óculos"} -> "cat:oculos"
    [] product_type = "bolsas" -> "cat:bolsas"
    [] product_type = "carteiras" -> "cat:carteiras"
    [] product_type \in {"acessorios", "acessórios"} -> "cat:acessorios"
    [] OTHER -> "cat:acessorios"

\* The tags a product can hold; the tags string is the list of its tags.
MaxTags == 2
TagVocab == {"cat:brincos", "cat:aneis", "cat:aneis-ouro", "moda", "twp"}
TagLists == UNION {[1 .. n -> TagVocab] : n \in 0 .. MaxTags}

\* s in t, for a cat tag s and a tag t of the vocabulary.
TagWithin(s, t) == s = t \/ <<s, t>> \in {<<"cat:aneis", "cat:aneis-ouro">>}

\* cat_tag in tags_atuais: the tag is a substring of the tags string.
InTags(cat_tag, tags_atuais) ==
  \E j \in 1 .. Len(tags_atuais) : TagWithin(cat_tag, tags_atuais[j])

\* The new tags with the old cat tags left in.
novas_tags_sem_remover(product_type, tags_atuais) ==
  << TYPE_TO_CAT(LowerStrip(product_type)) >> \o tags_atuais

\* corrigir_tags, lines 73-90: nothing to write when the right cat tag is
\* found in the tags string; else the old cat tags dropped and the right
\* one put first.
novas_tags(product_type, tags_atuais) ==
  << TYPE_TO_CAT(LowerStrip(product_type)) >>
    \o SelectSeq(tags_atuais, LAMBDA t : ~StartsWithCat(t))

TagScripts == {"processar_v3.gerar_tags", "processar_v2.gerar_tags", "corrigir_tags"}

InitTags ==
  /\ script \in TagScripts
  /\ IdleProgram
  /\ IF script = "corrigir_tags"
       THEN \E pt \in ProductTypes, ta \in TagLists :
              arg = [kind |-> "produto", product_type |-> pt, tags |-> ta]
       ELSE \E t \in SUBSET TitleWords : arg = [kind |-> "titulo", titulo |-> t]
  /\ ret = NoRet
  /\ NoMining /\ NoFix

\* processar_produto of processar_v3, lines 481 and 495: the tags written.
GerarTags ==
  /\ script = "processar_v3.gerar_tags" /\ ret = NoRet
  /\ ret' = [kind |-> "tags", written |-> TRUE,
             tags |-> gerar_tags(arg.titulo,
                                 detectar_categoria(CATEGORIAS_MAP, arg.titulo))]
  /\ UNCHANGED <<arg, restVars>>

\* processar_produto of processar_v2, lines 279 and 298: the tags written.
GerarTagsV2 ==
  /\ script = "processar_v2.gerar_tags" /\ ret = NoRet
  /\ ret' = [kind |-> "tags", written |-> TRUE,
             tags |-> gerar_tags_v2(arg.titulo,
                                    detectar_categoria(CATEGORIAS, arg.titulo))]
  /\ UNCHANGED <<arg, restVars>>

\* corrigir_tags, lines 70-100: skip, or PUT the new tags.  status is the
\* answer to the PUT, lista the tags of the product afterwards.
CorrigirTags ==
  /\ script = "corrigir_tags" /\ ret = NoRet
  /\ IF InTags(TYPE_TO_CAT(LowerStrip(arg.product_type)), arg.tags)
       THEN ret' = [kind |-> "tags", written |-> FALSE, tags |-> {},
                    status |-> "none", lista |-> arg.tags]
       ELSE \E st \in {"200", "500"} :
              ret' = [kind |-> "tags", written |-> TRUE,
                      tags |-> Range(novas_tags(arg.product_type, arg.tags)),
                      status |-> st,
                      lista |-> IF st = "200"
                                  THEN novas_tags(arg.product_type, arg.tags)
                                  ELSE arg.tags]
  /\ UNCHANGED <<arg, restVars>>

\* corrigir_tags on the product as the first call left it, in a later run
\* of the script (lines 70-100 again): skip and leave the tags alone, or
\* PUT the new tags, which the remote answers 200 or not.
CorrigirTagsDeNovo ==
  /\ script = "corrigir_tags" /\ ret.kind = "tags"
  /\ IF InTags(TYPE_TO_CAT(LowerStrip(arg.product_type)), ret.lista)
       THEN ret' = [kind |-> "tags_de_novo", antes |-> ret,
                    written |-> FALSE, tags |-> {},
                    status |-> "none", lista |-> ret.lista]
       ELSE \E st \in {"200", "500"} :
              ret' = [kind |-> "tags_de_novo", antes |-> ret,
                      written |-> TRUE,
                      tags |-> Range(novas_tags(arg.product_type, ret.lista)),
                      status |-> st,
                      lista |-> IF st = "200"
                                  THEN novas_tags(arg.product_type, ret.lista)
                                  ELSE ret.lista]
  /\ UNCHANGED <<arg, restVars>>

NextTags == GerarTags \/ GerarTagsV2 \/ CorrigirTags \/ CorrigirTagsDeNovo

SpecTags == InitTags /\ [][NextTags]_vars

\* C11: every tag set written holds exactly one tag of the form cat:<category>.
C11_ExactlyOneCatTag ==
  (ret.kind = "tags" /\ ret.written) =>
    Cardinality({t \in ret.tags : StartsWithCat(t)}) = 1

\* ======================================================= acceptance filter
\* Ratings are in tenths, prices in cents of a dollar.
min_pedidos == 500
min_rating == 45
min_reviews == 100
preco_min == 500
preco_max == 3000
max_dias_envio == 30

\* CriteriosMineracao.keywords_evitar, the default list.
keywords_evitar ==
  <<"replica", "fake", "copy", "brand", "nike", "adidas", "gucci",
    "louis vuitton", "rolex", "battery", "liquid", "aerosol">>

\* CriteriosMineracao() with a given list of keywords to avoid.
CriteriosMineracao(kws) ==
  [min_pedidos |-> min_pedidos, min_rating |-> min_rating,
   min_reviews |-> min_reviews, preco_min |-> preco_min,
   preco_max |-> preco_max, max_dias_envio |-> max_dias_envio,
   keywords_evitar |-> kws]

\* The keyword lists tried: the default one, and one a user configured.
KeywordLists == {keywords_evitar, <<"fake", "Rolex">>}

\* The candidates tried.
FilterTitleWords == {"Nike", "branded", "rolex"}
Candidates ==
  [orders : {200, 400, 1200}, rating : {38, 42, 48}, reviews : {50, 80, 150},
   price : {50, 300, 1200, 4000, 6000}, shipping_days : {18, 40, 60},
   title : SUBSET FilterTitleWords]

Motivo(cond, m) == IF cond THEN << m >> ELSE << >>

PrecoMuitoAltoInvertido(preco, c) == preco < c.preco_max

\* line 123: preco > criterios.preco_max
PrecoMuitoAlto(preco, c) == preco > c.preco_max

\* lines 132-136: the first keyword of the list found in the lower-cased
\* title; 0 when there is none.  The keyword is taken as it is written.
PrimeiraKeyword(titulo, kws) ==
  LET hits == {i \in 1 .. Len(kws) : \E w \in titulo : Within(kws[i], Lower(w))}
  IN  IF hits = {} THEN 0 ELSE CHOOSE i \in hits : \A j \in hits : i <= j

\* validar_produto, lines 102-136: motivos_reprovacao.  A reason is the
\* criterion it belongs to and the values its text shows.
motivos_reprovacao(produto, c) ==
  LET k == PrimeiraKeyword(produto.title, c.keywords_evitar)
  IN  Motivo(produto.orders < c.min_pedidos,
             [crit |-> "min_pedidos",
              text |-> <<"Pedidos insuficientes", produto.orders, c.min_pedidos>>])
      \o Motivo(produto.rating < c.min_rating,
             [crit |-> "min_rating",
              text |-> <<"Rating baixo", produto.rating, c.min_rating>>])
      \o Motivo(produto.reviews < c.min_reviews,
             [crit |-> "min_reviews",
              text |-> <<"Poucos reviews", produto.reviews, c.min_reviews>>])
      \o Motivo(produto.price < c.preco_min,
             [crit |-> "preco_min",
              text |-> <<"Preço muito baixo", produto.price>>])
      \o Motivo(PrecoMuitoAlto(produto.price, c),
             [crit |-> "preco_max",
              text |-> <<"Preço muito alto", produto.price>>])
      \o Motivo(produto.shipping_days > c.max_dias_envio,
             [crit |-> "max_dias_envio",
              text |-> <<"Envio lento", produto.shipping_days>>])
      \o Motivo(k # 0,
             [crit |-> "keywords_evitar",
              text |-> <<"Keyword proibida",
                         IF k # 0 THEN c.keywords_evitar[k] ELSE "">>])

\* validar_produto, lines 138-139: (aprovado, motivos).
validar_produto(produto, c) ==
  [aprovado |-> Len(motivos_reprovacao(produto, c)) = 0,
   motivos |-> motivos_reprovacao(produto, c)]

\* One threshold made looser: the new criteria, by the name of the threshold.
Looser(c) ==
  {<<"min_pedidos", [c EXCEPT !.min_pedidos = 300]>>,
   <<"min_rating", [c EXCEPT !.min_rating = 40]>>,
   <<"min_reviews", [c EXCEPT !.min_reviews = 60]>>,
   <<"preco_min", [c EXCEPT !.preco_min = 100]>>,
   <<"preco_max", [c EXCEPT !.preco_max = 5000]>>,
   <<"max_dias_envio", [c EXCEPT !.max_dias_envio = 45]>>}
  \cup {<<"keywords_evitar",
          [c EXCEPT !.keywords_evitar =
             SubSeq(c.keywords_evitar, 1, j - 1)
               \o SubSeq(c.keywords_evitar, j + 1, Len(c.keywords_evitar))]>> :
        j \in 1 .. Len(c.keywords_evitar)}

InitFilter ==
  /\ script = "validar_produto"
  /\ IdleProgram
  /\ \E p \in Candidates, kws \in KeywordLists :
       arg = [kind |-> "candidato", produto |-> p,
              criterios |-> CriteriosMineracao(kws)]
  /\ ret = NoRet
  /\ NoMining /\ NoFix

\* validar_produto(produto, criterios)
ValidarProduto ==
  /\ script = "validar_produto" /\ ret = NoRet
  /\ LET r == validar_produto(arg.produto, arg.criterios)
     IN  ret' = [kind |-> "validar", aprovado |-> r.aprovado, motivos |-> r.motivos,
                 loosened |-> "none", antes |-> r]
  /\ UNCHANGED <<arg, restVars>>

\* validar_produto called again on the same candidate with one threshold
\* of the criteria made looser.
ValidarOutraVez ==
  /\ script = "validar_produto" /\ ret.kind = "validar" /\ ret.loosened = "none"
  /\ \E l \in Looser(arg.criterios) :
       LET r == validar_produto(arg.produto, l[2])
       IN  /\ arg' = [arg EXCEPT !.criterios = l[2]]
           /\ ret' = [kind |-> "validar", aprovado |-> r.aprovado,
                      motivos |-> r.motivos, loosened |-> l[1],
                      antes |-> [aprovado |-> ret.aprovado, motivos |-> ret.motivos]]
  /\ UNCHANGED restVars

NextFilter == ValidarProduto \/ ValidarOutraVez

SpecFilter == InitFilter /\ [][NextFilter]_vars

\* The criteria a candidate violates, read off the statement of the filter;
\* the keyword test is case-insensitive on both sides.
Violated(produto, c) ==
  {x \in {"min_pedidos", "min_rating", "min_reviews", "preco_min", "preco_max",
          "max_dias_envio", "keywords_evitar"} :
     \/ x = "min_pedidos" /\ produto.orders < c.min_pedidos
     \/ x = "min_rating" /\ produto.rating < c.min_rating
     \/ x = "min_reviews" /\ produto.reviews < c.min_reviews
     \/ x = "preco_min" /\ produto.price < c.preco_min
     \/ x = "preco_max" /\ produto.price > c.preco_max
     \/ x = "max_dias_envio" /\ produto.shipping_days > c.max_dias_envio
     \/ x = "keywords_evitar" /\ \E i \in 1 .. Len(c.keywords_evitar) :
          \E w \in produto.title : Within(Lower(c.keywords_evitar[i]), Lower(w))}

ScenarioB ==
  [orders |-> 1200, rating |-> 48, reviews |-> 50, price |-> 1200,
   shipping_days |-> 18, title |-> {}]

\* C12: the reasons returned are one for each violated criterion, the
\* candidate is accepted iff there is none, and Scenario B is rejected with
\* exactly the reason "Poucos reviews: 50 < 100".
C12_AllReasonsAccumulated ==
  (ret.kind = "validar") =>
    /\ {ret.motivos[j].crit : j \in 1 .. Len(ret.motivos)}
         = Violated(arg.produto, arg.criterios)
    /\ ret.aprovado <=> (ret.motivos = << >>)
    /\ (arg.produto = ScenarioB /\ ret.loosened = "none") =>
         /\ ~ret.aprovado
         /\ ret.motivos = << [crit |-> "min_reviews",
                              text |-> <<"Poucos reviews", 50, 100>>] >>

\* C13: with one threshold loosened, an accepted candidate stays accepted
\* and a rejected one keeps every reason but that of the loosened threshold.
C13_FilterMonotone ==
  (ret.kind = "validar" /\ ret.loosened # "none") =>
    /\ ret.antes.aprovado => ret.aprovado
    /\ \A j \in 1 .. Len(ret.antes.motivos) :
         ret.antes.motivos[j].crit # ret.loosened
           => ret.antes.motivos[j] \in Range(ret.motivos)

\* A rejected candidate lost the reason of the loosened threshold and kept
\* another one.
C13_Witness ==
  /\ ret.kind = "validar" /\ ret.loosened # "none"
  /\ Len(ret.antes.motivos) >= 2
  /\ Len(ret.motivos) = Len(ret.antes.motivos) - 1
  /\ ret.loosened \notin {ret.motivos[j].crit : j \in 1 .. Len(ret.motivos)}

\* ================================================== binary64 arithmetic
\* Python's float is the IEEE 754 binary64 number.  A natural number too
\* large for the machine integers is a sequence of digits in base 10000,
\* the least significant first; a double is the record
\* [neg, m, s] for the value (-1)^neg * m / 2^s with 2^52 <= m < 2^53, or
\* m = << >> for zero.  Every operation rounds its exact result to the
\* nearest double, a tie to the even significand, as the hardware does.

MaxOf(a, b) == IF a >= b THEN a ELSE b

RECURSIVE BigOf(_)
BigOf(n) == IF n = 0 THEN << >> ELSE <<n % 10000>> \o BigOf(n \div 10000)

\* a * m + carry for a small m.
RECURSIVE BigMulSmall(_, _, _)
BigMulSmall(a, m, carry) ==
  IF a = << >> THEN BigOf(carry)
  ELSE LET t == a[1] * m + carry
       IN  <<t % 10000>> \o BigMulSmall(Tail(a), m, t \div 10000)

BigDigit(a, i) == IF i <= Len(a) THEN a[i] ELSE 0

\* -1, 0 or 1 as a is below, equal to or above b, from digit i downwards.
RECURSIVE BigCmpFrom(_, _, _)
BigCmpFrom(a, b, i) ==
  IF i = 0 THEN 0
  ELSE IF BigDigit(a, i) < BigDigit(b, i) THEN -1
  ELSE IF BigDigit(a, i) > BigDigit(b, i) THEN 1
  ELSE BigCmpFrom(a, b, i - 1)

BigCmp(a, b) == BigCmpFrom(a, b, MaxOf(Len(a), Len(b)))

\* a - b for a >= b, digit i onwards.
RECURSIVE BigSubFrom(_, _, _, _)
BigSubFrom(a, b, i, borrow) ==
  IF i > Len(a) THEN << >>
  ELSE LET t == a[i] - BigDigit(b, i) - borrow
       IN  IF t < 0 THEN <<t + 10000>> \o BigSubFrom(a, b, i + 1, 1)
           ELSE <<t>> \o BigSubFrom(a, b, i + 1, 0)

BigSub(a, b) == BigSubFrom(a, b, 1, 0)

\* a + b, digit i onwards.
RECURSIVE BigAddFrom(_, _, _, _)
BigAddFrom(a, b, i, carry) ==
  IF i > Len(a) /\ i > Len(b) THEN BigOf(carry)
  ELSE LET t == BigDigit(a, i) + BigDigit(b, i) + carry
       IN  <<t % 10000>> \o BigAddFrom(a, b, i + 1, t \div 10000)

BigAdd(a, b) == BigAddFrom(a, b, 1, 0)

RECURSIVE BigMul(_, _)
BigMul(a, b) ==
  IF b = << >> THEN << >>
  ELSE BigAdd(BigMulSmall(a, b[1], 0), <<0>> \o BigMul(a, Tail(b)))

\* a without its leading zero digits.
RECURSIVE BigTrim(_)
BigTrim(a) ==
  IF a = << >> \/ a[Len(a)] # 0 THEN a ELSE BigTrim(SubSeq(a, 1, Len(a) - 1))

BigIsZero(a) == \A i \in 1 .. Len(a) : a[i] = 0
BigIsOdd(a) == a # << >> /\ a[1] % 2 = 1

\* a \div d and a % d for a small d, digits i downwards, rem carried in.
RECURSIVE BigDivFrom(_, _, _, _)
BigDivFrom(a, d, i, rem) ==
  IF i = 0 THEN << >>
  ELSE BigDivFrom(a, d, i - 1, (rem * 10000 + a[i]) % d)
         \o <<(rem * 10000 + a[i]) \div d>>

RECURSIVE BigModFrom(_, _, _, _)
BigModFrom(a, d, i, rem) ==
  IF i = 0 THEN rem
  ELSE BigModFrom(a, d, i - 1, (rem * 10000 + a[i]) % d)

BigDivSmall(a, d) == BigDivFrom(a, d, Len(a), 0)
BigModSmall(a, d) == BigModFrom(a, d, Len(a), 0)

\* The value of a, which fits a machine integer.
RECURSIVE BigToInt(_)
BigToInt(a) == IF a = << >> THEN 0 ELSE a[1] + 10000 * BigToInt(Tail(a))

\* m^i as a sequence of digits.
RECURSIVE BigPow(_, _)
BigPow(m, i) == IF i = 0 THEN <<1>> ELSE BigMulSmall(BigPow(m, i - 1), m, 0)

\* a * 2^k.
RECURSIVE BigShl(_, _)
BigShl(a, k) ==
  IF k = 0 THEN a
  ELSE IF k >= 13 THEN BigShl(BigMulSmall(a, 8192, 0), k - 13)
  ELSE BigShl(BigMulSmall(a, 2, 0), k - 1)

\* The quotient n \div d, known to lie in lo .. hi - 1.
RECURSIVE BigQuot(_, _, _, _)
BigQuot(n, d, lo, hi) ==
  IF hi - lo <= 1 THEN lo
  ELSE LET mid == (lo + hi) \div 2
       IN  IF BigCmp(BigMulSmall(d, mid, 0), n) <= 0
           THEN BigQuot(n, d, mid, hi)
           ELSE BigQuot(n, d, lo, mid)

\* round(n / d), a tie to the even integer; the result is below top.
BigRound(n, d, top) ==
  LET q    == BigQuot(n, d, 0, top)
      r2   == BigMulSmall(BigSub(n, BigMulSmall(d, q, 0)), 2, 0)
      half == BigCmp(r2, d)
  IN  IF half < 0 THEN q
      ELSE IF half > 0 THEN q + 1
      ELSE IF q % 2 = 0 THEN q ELSE q + 1

Two40 == BigShl(<<1>>, 40)
Two52 == BigShl(<<1>>, 52)
Two53 == BigShl(<<1>>, 53)
Two54 == BigShl(<<1>>, 54)
Two58 == BigShl(<<1>>, 58)
Two66 == BigShl(<<1>>, 66)

FlZero == [neg |-> FALSE, m |-> << >>, s |-> 0]

\* The double nearest to (-1)^neg * (M + e) / 2^S, where 0 <= e < 1 and
\* e > 0 exactly when sticky is set; with sticky set M is 2^54 or more.
RECURSIVE FlNorm(_, _, _, _)
FlNorm(neg, M, S, sticky) ==
  IF BigIsZero(M) THEN FlZero
  ELSE IF BigCmp(M, Two40) < 0
    THEN FlNorm(neg, BigMulSmall(M, 4096, 0), S + 12, sticky)
  ELSE IF BigCmp(M, Two52) < 0
    THEN FlNorm(neg, BigMulSmall(M, 2, 0), S + 1, sticky)
  ELSE IF BigCmp(M, Two53) < 0 THEN [neg |-> neg, m |-> BigTrim(M), s |-> S]
  ELSE IF BigCmp(M, Two66) >= 0
    THEN FlNorm(neg, BigDivSmall(M, 8192), S - 13,
                sticky \/ BigModSmall(M, 8192) # 0)
  ELSE IF BigCmp(M, Two58) >= 0
    THEN FlNorm(neg, BigDivSmall(M, 32), S - 5,
                sticky \/ BigModSmall(M, 32) # 0)
  ELSE IF BigCmp(M, Two54) >= 0
    THEN FlNorm(neg, BigDivSmall(M, 2), S - 1, sticky \/ BigIsOdd(M))
  ELSE LET q  == BigDivSmall(M, 2)
           up == BigIsOdd(M) /\ (sticky \/ BigIsOdd(q))
       IN  FlNorm(neg, IF up THEN BigAdd(q, <<1>>) ELSE q, S - 1, FALSE)

\* float("n/d" written in decimal) and float(n): the double nearest to the
\* fraction n / d, for 0 < d <= 10000.
FlOfRatio(n, d) ==
  LET M == BigShl(BigOf(IF n < 0 THEN -n ELSE n), 90)
  IN  FlNorm(n < 0, BigDivSmall(M, d), 90, BigModSmall(M, d) # 0)

FlOfInt(n) == FlOfRatio(n, 1)

FlNeg(x) == IF x.m = << >> THEN x ELSE [x EXCEPT !.neg = ~x.neg]

\* x * y
FlMul(x, y) == FlNorm(x.neg # y.neg, BigMul(x.m, y.m), x.s + y.s, FALSE)

\* x + y and x - y
FlAdd(x, y) ==
  LET S == MaxOf(x.s, y.s)
      X == BigShl(x.m, S - x.s)
      Y == BigShl(y.m, S - y.s)
  IN  IF x.neg = y.neg THEN FlNorm(x.neg, BigAdd(X, Y), S, FALSE)
      ELSE IF BigCmp(X, Y) >= 0 THEN FlNorm(x.neg, BigSub(X, Y), S, FALSE)
      ELSE FlNorm(y.neg, BigSub(Y, X), S, FALSE)

FlSub(x, y) == FlAdd(x, FlNeg(y))

\* 13 * k more bits of the quotient (Q * D + R) / D, with R < D.
RECURSIVE DivBits(_, _, _, _)
DivBits(Q, R, D, k) ==
  IF k = 0 THEN [q |-> Q, r |-> R]
  ELSE LET N == BigMulSmall(R, 8192, 0)
           d == BigQuot(N, D, 0, 8192)
       IN  DivBits(BigMulSmall(Q, 8192, d), BigSub(N, BigMulSmall(D, d, 0)),
                   D, k - 1)

\* x / y for y # 0
FlDiv(x, y) ==
  IF x.m = << >> THEN FlZero
  ELSE LET ge == BigCmp(x.m, y.m) >= 0
           qr == DivBits(IF ge THEN <<1>> ELSE << >>,
                         IF ge THEN BigSub(x.m, y.m) ELSE x.m, y.m, 5)
       IN  FlNorm(x.neg # y.neg, qr.q, x.s - y.s + 65, ~BigIsZero(qr.r))

\* x < y
FlLt(x, y) ==
  LET S == MaxOf(x.s, y.s)
      c == BigCmp(BigShl(x.m, S - x.s), BigShl(y.m, S - y.s))
  IN  IF x.neg # y.neg THEN x.neg
      ELSE IF x.neg THEN c > 0 ELSE c < 0

\* M / 2^k rounded to the nearest natural number, a tie to the even one.
RECURSIVE ShiftRound(_, _, _)
ShiftRound(M, k, sticky) ==
  IF k <= 0 THEN BigShl(M, -k)
  ELSE IF k > 13
    THEN ShiftRound(BigDivSmall(M, 8192), k - 13,
                    sticky \/ BigModSmall(M, 8192) # 0)
  ELSE IF k > 4
    THEN ShiftRound(BigDivSmall(M, 16), k - 4,
                    sticky \/ BigModSmall(M, 16) # 0)
  ELSE IF k > 1
    THEN ShiftRound(BigDivSmall(M, 2), k - 1, sticky \/ BigIsOdd(M))
  ELSE LET q == BigDivSmall(M, 2)
       IN  IF BigIsOdd(M) /\ (sticky \/ BigIsOdd(q)) THEN BigAdd(q, <<1>>)
           ELSE q

\* round(x): the nearest integer to the double, a tie to the even one.
FlRound(x) ==
  LET v == BigToInt(ShiftRound(x.m, x.s, FALSE))
  IN  IF x.neg THEN -v ELSE v

\* round(x, 2) in hundredths: the double is rounded correctly to two
\* decimals, on its exact binary value.
FlRound2(x) ==
  LET v == BigToInt(ShiftRound(BigMulSmall(x.m, 100, 0), x.s, FALSE))
  IN  IF x.neg THEN -v ELSE v

\* ========================================================= scoring adapter
\* ClaudeClient of src/ai/claude_client.py.  Ratings are in tenths, prices in
\* cents of a dollar, suggested prices in centavos.

\* The candidates scored.  Prices are multiples of 4 cents, so that
\* price * 2.5 * 5.5 is a whole number of centavos.
ScoreCandidates ==
  [orders : {0, 499, 500, 999, 1000, 5000}, rating : {0, 44, 45, 46, 47, 50},
   price : {0, 400, 500, 550, 1200, 2500, 2600, 3000, 3200}]

\* The fields of the JSON object found in a reply.  A field can be absent.
Payloads ==
  [aprovado : BOOLEAN, score : {-5, 0, 40, 69, 70, 85, 100, 150},
   preco_sugerido_brl : {9990}]
    \cup [aprovado : BOOLEAN] \cup [score : {40, 85}] \cup {[motivo |-> "ok"]}

\* What the oracle does with one request.
OracleOutcomes ==
  {[kind |-> "unavailable"],    \* self.client is None: no key, no library
   [kind |-> "raises"],         \* messages.create raises: timeout, network, auth
   [kind |-> "empty"],          \* response.content is empty
   [kind |-> "prose"],          \* text without a {...} object
   [kind |-> "malformed"]}      \* text with braces that json.loads rejects
    \cup {[kind |-> "payload", data |-> d] : d \in Payloads}

\* data.get(k, default)
Get(data, k, default) == IF k \in DOMAIN data THEN data[k] ELSE default

PontosPedidosSemTeto(orders) == (orders \div 500) * 20

\* _analise_fallback, lines 154-157.
PontosPedidos(orders) ==
  IF orders >= 1000 THEN 30 ELSE IF orders >= 500 THEN 20 ELSE 0

\* _analise_fallback, lines 159-162.
PontosRating(rating) ==
  IF rating >= 47 THEN 30 ELSE IF rating >= 45 THEN 20 ELSE 0

\* _analise_fallback, lines 164-167.
PontosPreco(price) ==
  IF 500 <= price /\ price <= 2500 THEN 20 ELSE IF price <= 3000 THEN 10 ELSE 0

\* round(price * 2.5 * 5.5, 2), line 172, in centavos, for a price in
\* cents: the two products and the rounding are those of the doubles.
PrecoBrl(price) ==
  FlRound2(FlMul(FlMul(FlOfRatio(price, 100), FlOfRatio(25, 10)),
                 FlOfRatio(55, 10)))

\* _analise_fallback, lines 146-184.
analise_fallback(produto) ==
  LET score == PontosPedidos(produto.orders) + PontosRating(produto.rating)
                 + PontosPreco(produto.price)
  IN  [aprovado |-> score >= 60, score |-> score,
       motivo |-> "Análise automática baseada em métricas",
       preco_sugerido |-> PrecoBrl(produto.price)]

\* _parse_response, lines 121-144: the fields of the JSON object as they
\* come, with defaults for the absent ones; the fallback when there is no
\* object or json.loads raises.
parse_response(oracle, produto) ==
  IF oracle.kind = "payload"
    THEN [aprovado |-> Get(oracle.data, "aprovado", FALSE),
          score |-> Get(oracle.data, "score", 0),
          motivo |-> Get(oracle.data, "motivo", ""),
          preco_sugerido |-> Get(oracle.data, "preco_sugerido_brl", 0)]
    ELSE analise_fallback(produto)

Returned(analise) == [raised |-> FALSE, analise |-> analise]

ExceptNothing(produto) == [raised |-> TRUE, analise |-> [motivo |-> "raised"]]

\* analisar_produto, lines 81-83: except Exception returns the fallback.
ExceptException(produto) == Returned(analise_fallback(produto))

\* analisar_produto, lines 53-83.
analisar_produto(produto, oracle) ==
  IF oracle.kind = "unavailable" THEN Returned(analise_fallback(produto))
  ELSE IF oracle.kind \in {"raises", "empty"} THEN ExceptException(produto)
  ELSE Returned(parse_response(oracle, produto))

InitScore ==
  /\ script = "analisar_produto"
  /\ IdleProgram
  /\ \E p \in ScoreCandidates, o \in OracleOutcomes :
       arg = [kind |-> "scoring", produto |-> p, oracle |-> o]
  /\ ret = NoRet
  /\ NoMining /\ NoFix

\* ai_client.analisar_produto(produto)
AnalisarProduto ==
  /\ script = "analisar_produto" /\ ret = NoRet
  /\ LET r == analisar_produto(arg.produto, arg.oracle)
     IN  ret' = [kind |-> "analise", raised |-> r.raised, analise |-> r.analise]
  /\ UNCHANGED <<arg, restVars>>

NextScore == AnalisarProduto

SpecScore == InitScore /\ [][NextScore]_vars

\* The fallback result as the documentation states it.
DocumentedFallback(produto) ==
  LET score == (IF produto.orders >= 1000 THEN 30 ELSE 0)
                 + (IF 500 <= produto.orders /\ produto.orders < 1000 THEN 20 ELSE 0)
                 + (IF produto.rating >= 45 THEN 25 ELSE 0)
                 + (IF 500 <= produto.price /\ produto.price <= 2500 THEN 20 ELSE 0)
  IN  [aprovado |-> score >= 60, score |-> score,
       preco_sugerido |-> PrecoBrl(produto.price)]

\* The reply has the expected fields: a verdict and a score.
HasExpectedFields(oracle) ==
  oracle.kind = "payload" /\ {"aprovado", "score"} \subseteq DOMAIN oracle.data

\* C16: when the oracle call fails or its reply does not parse into the
\* expected fields, the result is the documented fallback: its score, its
\* verdict score >= 60 and its suggested price.
C16_FallbackAsDocumented ==
  (ret.kind = "analise" /\ ~HasExpectedFields(arg.oracle)) =>
    /\ ~ret.raised
    /\ ret.analise.score = DocumentedFallback(arg.produto).score
    /\ ret.analise.aprovado = DocumentedFallback(arg.produto).aprovado
    /\ ret.analise.preco_sugerido = DocumentedFallback(arg.produto).preco_sugerido

\* C17: whatever the oracle does, analisar_produto returns a scored result.
C17_ScoringNeverRaises ==
  (ret.kind = "analise") =>
    /\ ~ret.raised
    /\ {"aprovado", "score", "preco_sugerido"} \subseteq DOMAIN ret.analise

\* The oracle call timed out and the fallback result was returned.
C17_Witness ==
  /\ ret.kind = "analise" /\ arg.oracle.kind = "raises"
  /\ ~ret.raised
  /\ ret.analise = analise_fallback(arg.produto)

\* C18: every scored result returned has a score in [0,100].
C18_ScoreInRange ==
  (ret.kind = "analise" /\ ~ret.raised) => ret.analise.score \in 0 .. 100

\* C19: the fallback score is in [0,100].
C19_FallbackScoreInRange ==
  (ret.kind = "analise" /\ arg.oracle.kind \in {"unavailable", "raises", "empty", "prose", "malformed"})
    => ret.analise.score \in 0 .. 100

\* The fallback scored a candidate that earns every kind of points.
C19_Witness ==
  /\ ret.kind = "analise" /\ arg.oracle.kind = "unavailable"
  /\ arg.produto.orders >= 1000 /\ arg.produto.rating >= 47
  /\ arg.produto.price = 1200
  /\ ret.analise.score = 80

\* ========================================================= mining pipeline
MaxCards == 2          \* product cards on the page of a category
MaxQuantidade == 2     \* --quantidade: 1 .. MaxQuantidade

\* The score a kept candidate must reach (daily_routine, line 73).
MinScore == 70

\* What _parse_product_card reads from a card.
MineCards ==
  [orders : {400, 1200}, rating : {45}, price : {1200, 2600},
   title : {{}, {"rolex"}}]

CardLists == UNION {[1 .. n -> MineCards] : n \in 0 .. MaxCards}

\* _parse_product_card, lines 214-229: the product dict of a card.
ParseCard(card) ==
  [orders |-> card.orders, rating |-> card.rating, price |-> card.price,
   title |-> card.title, reviews |-> card.orders \div 10, shipping_days |-> 20]

FiltroSempre(produto) == TRUE

\* buscar_categoria, lines 156-157: validar_produto(produto, self.criterios)
\* with self.criterios = CriteriosMineracao().
FiltroAprovado(produto) ==
  validar_produto(produto, CriteriosMineracao(keywords_evitar)).aprovado

\* buscar_categoria, line 151: cards[:max_produtos * 2]
CardsVistos ==
  IF Len(arg.cards) > 2 * arg.quantidade
    THEN SubSeq(arg.cards, 1, 2 * arg.quantidade) ELSE arg.cards

\* What the oracle can do with a request of the pipeline.
PipelineOutcomes ==
  {[kind |-> "raises"],
   [kind |-> "payload", data |-> [aprovado |-> TRUE, score |-> 85, preco_sugerido_brl |-> 9990]],
   [kind |-> "payload", data |-> [aprovado |-> TRUE, score |-> 40, preco_sugerido_brl |-> 9990]],
   [kind |-> "payload", data |-> [aprovado |-> FALSE, score |-> 85, preco_sugerido_brl |-> 9990]]}

\* mine_products, line 107: if analise and analise.aprovado
Gate(analise) == analise.aprovado

\* Where minerar_categoria and main go once buscar_categoria has returned
\* produtos (mine_products, lines 95-100 and 160).
AfterBuscar(prods) ==
  IF Len(prods) = 0 THEN "done"
  ELSE IF arg.analisar_ia THEN "analisar" ELSE "salvar"

MineScripts == {"mine_products", "daily_routine", "teste_ciclo_completo"}

InitMine ==
  /\ script \in MineScripts
  /\ IdleProgram
  /\ \E cs \in CardLists, ia \in BOOLEAN, cl \in BOOLEAN, q \in 1 .. MaxQuantidade :
       arg = [kind |-> "mineracao", cards |-> cs, analisar_ia |-> ia,
              cliente |-> cl, quantidade |-> q]
  /\ ret = NoRet
  /\ mpc = "start" /\ ci = 0 /\ minerados = << >> /\ mi = 0
  /\ pontuados = << >> /\ analisados = << >> /\ salvos = << >>
  /\ NoFix

\* main of mine_products enters minerar_categoria and buscar_categoria.
\* executar_mineracao of daily_routine (line 57) and main of
\* teste_ciclo_completo (line 31) call ClaudeClient(modelo=...), which
\* ClaudeClient.__init__(self) rejects with a TypeError.
MineStart ==
  /\ script \in MineScripts /\ alive /\ mpc = "start"
  /\ IF script = "mine_products"
       THEN /\ mpc' = IF Len(CardsVistos) = 0 THEN "done" ELSE "buscar"
            /\ ci' = 1
            /\ UNCHANGED <<alive, stopCause>>
       ELSE /\ mpc' = "raised"
            /\ alive' = FALSE /\ stopCause' = "exception"
            /\ UNCHANGED ci
  /\ UNCHANGED <<script, pc, listVars, batchVars, imgVars, arg, ret, fixVars,
                 minerados, mi, pontuados, analisados, salvos>>

\* buscar_categoria, lines 151-164: one card parsed and validated; the loop
\* ends with the cards or when max_produtos products were collected.
BuscarCard ==
  /\ script = "mine_products" /\ alive /\ mpc = "buscar"
  /\ LET produto == ParseCard(CardsVistos[ci])
         prods == IF FiltroAprovado(produto)
                    THEN Append(minerados, produto) ELSE minerados
         fim == Len(prods) >= arg.quantidade \/ ci = Len(CardsVistos)
     IN  /\ minerados' = prods
         /\ ci' = IF fim THEN ci ELSE ci + 1
         /\ mpc' = IF fim THEN AfterBuscar(prods) ELSE "buscar"
         /\ mi' = IF fim /\ AfterBuscar(prods) = "analisar" THEN 1 ELSE mi
  /\ UNCHANGED <<procVars, listVars, batchVars, imgVars, arg, ret, fixVars,
                 pontuados, analisados, salvos>>

\* minerar_categoria, lines 105-119: one product analysed and gated.
AnalisarMinerado ==
  /\ script = "mine_products" /\ alive /\ mpc = "analisar"
  /\ \E o \in (IF arg.cliente THEN PipelineOutcomes ELSE {[kind |-> "unavailable"]}) :
       LET produto == minerados[mi]
           r == analisar_produto(produto, o)
           kept == IF ~r.raised /\ Gate(r.analise)
                     THEN Append(analisados, [produto |-> produto, analise |-> r.analise])
                     ELSE analisados
       IN  /\ pontuados' = Append(pontuados, produto)
           /\ analisados' = kept
           /\ IF r.raised
                THEN mpc' = "raised" /\ mi' = mi
                ELSE IF mi < Len(minerados)
                       THEN mpc' = "analisar" /\ mi' = mi + 1
                       ELSE /\ mpc' = IF Len(kept) = 0 THEN "done" ELSE "salvar"
                            /\ mi' = mi
  /\ UNCHANGED <<procVars, listVars, batchVars, imgVars, arg, ret, fixVars,
                 ci, minerados, salvos>>

\* main, lines 160-162: the products returned are saved as approved.
MineSalvar ==
  /\ script = "mine_products" /\ alive /\ mpc = "salvar"
  /\ salvos' = IF arg.analisar_ia
                 THEN [j \in 1 .. Len(analisados) |-> analisados[j].produto]
                 ELSE minerados
  /\ mpc' = "done"
  /\ UNCHANGED <<procVars, listVars, batchVars, imgVars, arg, ret, fixVars,
                 ci, minerados, mi, pontuados, analisados>>

NextMine == MineStart \/ BuscarCard \/ AnalisarMinerado \/ MineSalvar

SpecMine == InitMine /\ [][NextMine]_vars

\* C14: every candidate handed to analisar_produto was accepted by the
\* acceptance filter.
C14_FilterBeforeOracle ==
  \A j \in 1 .. Len(pontuados) :
    validar_produto(pontuados[j], CriteriosMineracao(keywords_evitar)).aprovado

\* The filter rejected one card of the page and the other was scored.
C14_Witness ==
  /\ mpc = "done" /\ Len(pontuados) >= 1
  /\ \E j \in 1 .. Len(CardsVistos) :
       /\ j <= ci
       /\ ~validar_produto(ParseCard(CardsVistos[j]),
                           CriteriosMineracao(keywords_evitar)).aprovado

\* C15: every candidate kept after scoring has a true verdict and a score
\* of at least the minimum score.
C15_ScoreGate ==
  \A j \in 1 .. Len(analisados) :
    /\ analisados[j].analise.aprovado
    /\ analisados[j].analise.score >= MinScore

\* ---------------------------------------------------------------------
\* Price computation: AdvancedPriceCalculator (pricing/advanced_calculator.py)
\* and EnrichmentService.calculate_price (enrichment/service.py).
\* An amount passed in or reported is an integer number of cents; the
\* values in between are doubles, as in the code.
\* ---------------------------------------------------------------------

\* DEFAULT_CONFIG['global'], rates in hundredths, markup in tenths, cents.
imposto_importacao == 15
icms == 18
markup_global == 25
frete_padrao_global == 3000

\* DEFAULT_CONFIG['nichos']: frete_padrao per nicho, in cents.
NichosFrete ==
  [bolsas |-> 3500, brincos |-> 1500, colares |-> 1800, pulseiras |-> 1500,
   aneis |-> 1200, relogios |-> 2500, oculos |-> 2000, acessorios |-> 2000]

\* DEFAULT_CONFIG['nichos'][n]['markup'], in tenths.
NichosMarkup == [n \in DOMAIN NichosFrete |-> 25]

\* The nicho arguments of the model and nicho.lower().
NichoArgs == {"brincos", "Bolsas", "aneis", "acessorios", "tenis"}
NichoLower(n) == IF n = "Bolsas" THEN "bolsas" ELSE n

\* nicho_config.get('markup', global_config.get('markup', 2.5))
MarkupDe(nicho) ==
  IF NichoLower(nicho) \in DOMAIN NichosMarkup
  THEN NichosMarkup[NichoLower(nicho)] ELSE markup_global

\* nicho_config.get('frete_padrao', global_config.get('frete_padrao', 30.0))
FretePadrao(nicho) ==
  IF NichoLower(nicho) \in DOMAIN NichosFrete
  THEN NichosFrete[NichoLower(nicho)] ELSE frete_padrao_global

\* The lowest price _arredondar_psicologico returns, in cents.
piso == 2990

\* A price of c cents as Python holds it: the double nearest to c / 100.
FlOfCents(c) == FlOfRatio(c, 100)

\* round(valor / step) * step - 0.10 in cents: the quotient is a double,
\* round() takes it to the nearest integer n, and n * step - 0.10 is the
\* double nearest to the price of n * step * 100 - 10 cents.
NearestMinusTenth(valor, step) ==
  FlRound(FlDiv(valor, FlOfInt(step))) * step * 100 - 10

\* Rounding with the step of the lowest tier for every value.
arredondar_sem_faixas(valor) == MaxOf(piso, NearestMinusTenth(valor, 10))

\* _arredondar_psicologico(valor), lines 130-143, for the double valor;
\* the result in cents.
arredondar_psicologico(valor) ==
  IF FlLt(valor, FlOfInt(50))
  THEN MaxOf(piso, NearestMinusTenth(valor, 10))
  ELSE IF FlLt(valor, FlOfInt(200))
  THEN NearestMinusTenth(valor, 10)
  ELSE IF FlLt(valor, FlOfInt(500))
  THEN NearestMinusTenth(valor, 20)
  ELSE NearestMinusTenth(valor, 50)

\* ---------------------------------------------------------------------
\* Installments (_calcular_parcelamento).  The Price factor
\* r (1 + r)^i / ((1 + r)^i - 1) with r = 0.0199 is the fraction
\* 199 * 10199^i / (10000 * (10199^i - 10000^i)), and an installment with
\* interest is the price times that fraction, rounded to the cent.
\* ---------------------------------------------------------------------

\* taxa_juros = 0.0199 as 199 / 10000.
taxa_juros == 199

\* The installment cut to the cent instead of rounded.
ValorTruncado(preco, i) == preco \div i

\* round(preco / i, 2), line 165, in cents.
ValorSemJuros(preco, i) == FlRound2(FlDiv(FlOfCents(preco), FlOfInt(i)))

\* _calcular_parcelamento(preco): valor, total and juros in cents for
\* i in 1 .. 12.
calcular_parcelamento(preco) ==
  [i \in 1 .. 12 |->
     IF i <= 6
     THEN [valor |-> ValorSemJuros(preco, i), total |-> preco, juros |-> 0]
     ELSE LET pw  == BigPow(10000 + taxa_juros, i)
              num == BigMulSmall(BigMulSmall(pw, taxa_juros, 0), preco, 0)
              den == BigMulSmall(BigSub(pw, BigPow(10000, i)), 10000, 0)
              tot == BigRound(BigMulSmall(num, i, 0), den, 2 * preco + 2)
          IN  [valor |-> BigRound(num, den, preco + 2),
               total |-> tot,
               juros |-> tot - preco]]

\* The compare-at price without the 30% uplift.
preco_de_sem_aumento(preco) == NearestMinusTenth(FlOfCents(preco), 10)

\* _calcular_preco_de(preco), lines 145-148: 30% above, nearest 10 minus
\* 0.10; cents.
calcular_preco_de(preco) ==
  NearestMinusTenth(FlMul(FlOfCents(preco), FlOfRatio(130, 100)), 10)

\* calcular_preco_final(preco_produto, frete, nicho), lines 61-128; an
\* optional argument is a sequence, << >> for None and <<v>> for the value
\* v.  The arguments and the reported fields are in cents; every step in
\* between is the operation on doubles that the code performs, and a
\* reported field is round(x, 2) of the double.
calcular_preco_final(preco_produto, frete, nicho) ==
  LET markup      == FlOfRatio(MarkupDe(nicho), 10)
      ii_rate     == FlOfRatio(imposto_importacao, 100)
      icms_rate   == FlOfRatio(icms, 100)
      subtotal    == FlOfCents(preco_produto)
      frete_int   == FlOfCents(IF frete = << >> THEN FretePadrao(nicho)
                               ELSE frete[1])
      base_ii     == FlAdd(subtotal, frete_int)
      ii          == FlMul(base_ii, ii_rate)
      base_icms   == FlAdd(FlAdd(subtotal, frete_int), ii)
      icms_valor  == FlDiv(FlMul(base_icms, icms_rate),
                           FlSub(FlOfInt(1), icms_rate))
      custo_total == FlAdd(FlAdd(FlAdd(subtotal, frete_int), ii), icms_valor)
      preco_venda == FlMul(custo_total, markup)
      preco_final == arredondar_psicologico(preco_venda)
  IN  [frete              |-> FlRound2(frete_int),
       imposto_importacao |-> FlRound2(ii),
       icms               |-> FlRound2(icms_valor),
       custo_total        |-> FlRound2(custo_total),
       preco_calculado    |-> FlRound2(preco_venda),
       preco_sugerido     |-> preco_final,
       preco_de           |-> calcular_preco_de(preco_final),
       parcelamento       |-> calcular_parcelamento(preco_final)]

\* EnrichmentService: DEFAULT_SHIPPING_COST, and markup_table with the
\* threshold in cents and the markup in hundredths.
default_shipping == 500
markup_table ==
  << <<500, 450>>, <<1500, 350>>, <<3000, 275>>, <<5000, 225>> >>
markup_acima == 190

\* _round_price(price), lines 57-66, for the double price; cents.
round_price(price) ==
  IF FlLt(price, FlOfInt(20))
  THEN FlRound(price) * 100 - 1
  ELSE IF FlLt(price, FlOfInt(50))
  THEN FlRound(FlDiv(price, FlOfInt(5))) * 500 - 10
  ELSE FlRound(FlDiv(price, FlOfInt(10))) * 1000 - 10

\* calculate_price(cost, shipping), lines 39-55: the first row of
\* markup_table whose threshold is not below the total cost gives the
\* markup.
calculate_price(cost, shipping) ==
  LET ship       == IF shipping = << >> THEN default_shipping
                    ELSE shipping[1]
      total_cost == FlAdd(FlOfCents(cost), FlOfCents(ship))
      rows       == {i \in 1 .. Len(markup_table) :
                       ~FlLt(FlOfCents(markup_table[i][1]), total_cost)}
      markup     == IF rows = {} THEN markup_acima
                    ELSE markup_table[CHOOSE i \in rows :
                                        \A j \in rows : i <= j][2]
  IN  round_price(FlMul(total_cost, FlOfRatio(markup, 100)))

\* Costs and freights of the model, in cents; the negative ones are the
\* invalid inputs.
PrecosProduto ==
  {-1000, 0, 1, 10, 50, 100, 500, 1000, 1780, 3280, 5000, 12000}
Fretes == {<< >>, <<-500>>, <<0>>, <<500>>, <<3000>>}

InitPrice ==
  /\ script \in {"calcular_preco_final", "calculate_price"}
  /\ IdleProgram
  /\ \E p \in PrecosProduto, f \in Fretes, n \in NichoArgs :
       arg = [kind |-> "price", preco_produto |-> p, frete |-> f,
              nicho |-> IF script = "calculate_price" THEN "acessorios" ELSE n]
  /\ ret = NoRet
  /\ NoMining /\ NoFix

\* AdvancedPriceCalculator().calcular_preco_final(preco_produto, frete, nicho)
CalcularPrecoFinal ==
  /\ script = "calcular_preco_final" /\ ret = NoRet
  /\ LET r == calcular_preco_final(arg.preco_produto, arg.frete, arg.nicho)
     IN  ret' = [kind |-> "preco_final", raised |-> FALSE,
                 preco |-> r.preco_sugerido, breakdown |-> r]
  /\ UNCHANGED <<arg, restVars>>

\* EnrichmentService().calculate_price(cost, shipping)
CalculatePrice ==
  /\ script = "calculate_price" /\ ret = NoRet
  /\ ret' = [kind |-> "price", raised |-> FALSE,
             preco |-> calculate_price(arg.preco_produto, arg.frete)]
  /\ UNCHANGED <<arg, restVars>>

NextPrice == CalcularPrecoFinal \/ CalculatePrice

SpecPrice == InitPrice /\ [][NextPrice]_vars

\* The cost and the freight given are not negative.
ValidArgs ==
  /\ arg.kind = "price" /\ arg.preco_produto >= 0
  /\ arg.frete # << >> => arg.frete[1] >= 0

\* C20: the final sale price of either price computation is at least
\* 29.90, for every non-negative cost and freight and every category.
C20_PriceFloor ==
  (ret.kind \in {"preco_final", "price"} /\ ValidArgs) => ret.preco >= piso

\* The part that holds: the price of calcular_preco_final is at least 29.90.
CalculatorPriceFloor ==
  ret.kind = "preco_final" => ret.preco >= piso

\* preco_venda of calcular_preco_final as the fraction n / d of a cent
\* (steps 1 to 6: base, II, ICMS por dentro, custo total, markup).
PrecoVenda(preco_produto, frete, nicho) ==
  LET frete_int   == IF frete = << >> THEN FretePadrao(nicho) ELSE frete[1]
      base_icms_n == (preco_produto + frete_int) * (100 + imposto_importacao)
  IN  [n |-> base_icms_n * MarkupDe(nicho), d |-> (100 - icms) * 10]

\* The step of the tier of a raw price n / d cents, in cents.
TierStep(n, d) ==
  IF n < 20000 * d THEN 1000 ELSE IF n < 50000 * d THEN 2000 ELSE 5000

\* p + 0.10 is a multiple of the step nearest to the raw price n / d.
NearestMinusTen(p, n, d, step) ==
  /\ (p + 10) % step = 0
  /\ LET diff == (p + 10) * d - n
     IN  2 * (IF diff >= 0 THEN diff ELSE 0 - diff) <= step * d

\* C21: the final price is the raw price rounded by the tier table (below
\* 50: nearest 10 minus 0.10, not below 29.90; 50-200: nearest 10 minus
\* 0.10; 200-500: nearest 20 minus 0.10; from 500: nearest 50 minus 0.10),
\* and cost 10.00, freight 5.00, brincos gives 49.90.
C21_TierTable ==
  (ret.kind = "preco_final" /\ ValidArgs) =>
    LET v == PrecoVenda(arg.preco_produto, arg.frete, arg.nicho)
    IN  /\ IF v.n < 5000 * v.d
           THEN \E p \in {-10, 990, 1990, 2990, 3990, 4990} :
                  /\ NearestMinusTen(p, v.n, v.d, 1000)
                  /\ ret.preco = MaxOf(piso, p)
           ELSE NearestMinusTen(ret.preco, v.n, v.d, TierStep(v.n, v.d))
        /\ (arg.preco_produto = 1000 /\ arg.frete = <<500>>
              /\ arg.nicho = "brincos") => ret.preco = 4990

\* Scenario A was computed: cost 10.00, freight 5.00, brincos.
C21_Witness ==
  /\ ret.kind = "preco_final" /\ ret.preco = 4990
  /\ arg.preco_produto = 1000 /\ arg.frete = <<500>> /\ arg.nicho = "brincos"

\* C22: in the breakdown returned, custo_total is the sum of subtotal,
\* frete, imposto_importacao and icms as reported, to the cent.
C22_LandedCostIsSum ==
  (ret.kind = "preco_final" /\ ValidArgs) =>
    ret.breakdown.custo_total =
      arg.preco_produto + ret.breakdown.frete
        + ret.breakdown.imposto_importacao + ret.breakdown.icms

\* The reported fields never differ from the reported total by more than
\* one cent.
LandedCostWithinOneCent ==
  ret.kind = "preco_final" =>
    LET s == arg.preco_produto + ret.breakdown.frete
               + ret.breakdown.imposto_importacao + ret.breakdown.icms
    IN  s - ret.breakdown.custo_total \in {-1, 0, 1}

\* C23: for i in 1 .. 6 the installment times i is the final price within
\* the rounding of each installment to the cent, and the interest is zero;
\* for i in 7 .. 12 the total is at least the final price and the interest
\* is not negative.
C23_InstallmentConsistency ==
  ret.kind = "preco_final" =>
    LET par == ret.breakdown.parcelamento
    IN  /\ \A i \in 1 .. 6 :
             LET diff == par[i].valor * i - ret.preco
             IN  /\ 2 * diff <= i /\ 2 * diff >= 0 - i
                 /\ par[i].juros = 0
                 /\ par[i].total = ret.preco
        /\ \A i \in 7 .. 12 :
             /\ par[i].total >= ret.preco
             /\ par[i].juros >= 0

\* A price of 49.90 was split: 4 x 12.47 without interest and 7 x 7.71
\* with a total of 53.95.
C23_Witness ==
  /\ ret.kind = "preco_final" /\ ret.preco = 4990
  /\ ret.breakdown.parcelamento[4].valor = 1247
  /\ ret.breakdown.parcelamento[7].valor = 771
  /\ ret.breakdown.parcelamento[7].total = 5395

\* C24: a call of the price computation with a negative cost or a negative
\* freight raises an error and returns no breakdown.
C24_NegativeInputRejected ==
  (ret.kind = "preco_final" /\ ~ValidArgs) => ret.raised

\* C30: in every breakdown returned, preco_de is strictly above
\* preco_sugerido and both end in .90.
C30_CompareAtAbovePrice ==
  ret.kind = "preco_final" =>
    /\ ret.breakdown.preco_de > ret.breakdown.preco_sugerido
    /\ ret.breakdown.preco_de % 100 = 90
    /\ ret.breakdown.preco_sugerido % 100 = 90

\* The floor price 29.90 was returned with a compare-at price of 39.90, and
\* 549.90 with 709.90.
C30_Witness ==
  /\ ret.kind = "preco_final"
  /\ \/ ret.breakdown.preco_sugerido = 2990 /\ ret.breakdown.preco_de = 3990
     \/ ret.breakdown.preco_sugerido = 54990 /\ ret.breakdown.preco_de = 70990

\* ---------------------------------------------------------------------
\* Extraction of the JSON object from a reply (_parse_response of
\* ai/claude_client.py and of ai/content_generator.py).  A reply is a
\* sequence of tokens: a run of prose without braces, an opening brace, a
\* closing brace, or the members of an object ("b1", "b2").
\* ---------------------------------------------------------------------

MaxTextLen == 6
Bodies == {"b1", "b2"}
Tokens == {"prose", "{", "}"} \cup Bodies
Texts == UNION {[1 .. n -> Tokens] : n \in 0 .. MaxTextLen}

\* The members written in a body, for each of the two parsers.
BodyData(b, parser) ==
  IF parser = "claude"
  THEN IF b = "b1"
       THEN [aprovado |-> TRUE, score |-> 85, preco_sugerido_brl |-> 9990]
       ELSE [score |-> 40]
  ELSE IF b = "b1" THEN [titulo |-> "Bolsa", tags |-> <<"bolsa", "couro">>]
       ELSE [material |-> "Couro"]

\* re.search(r'\{[\s\S]*\}', text).group(): from the first opening brace to
\* the last closing brace of the text; << >> when there is no match.
ReSearch(text) ==
  LET opens  == {i \in 1 .. Len(text) : text[i] = "{"}
      closes == {i \in 1 .. Len(text) : text[i] = "}"}
      first  == IF opens = {} THEN 0
                ELSE CHOOSE i \in opens : \A j \in opens : i <= j
      last   == IF closes = {} THEN 0
                ELSE CHOOSE i \in closes : \A j \in closes : i >= j
  IN  IF first # 0 /\ last > first THEN SubSeq(text, first, last) ELSE << >>

\* json.loads(span): an object is a pair of braces around one body or
\* around nothing; anything else raises.
JsonLoads(span, parser) ==
  IF span = <<"{", "}">> THEN [ok |-> TRUE, data |-> << >>]
  ELSE IF Len(span) = 3 /\ span[1] = "{" /\ span[2] \in Bodies /\ span[3] = "}"
  THEN [ok |-> TRUE, data |-> BodyData(span[2], parser)]
  ELSE [ok |-> FALSE, data |-> << >>]

\* What a reply with this text is to ClaudeClient._parse_response.
OracleOfText(text) ==
  LET m == ReSearch(text)
  IN  IF m = << >> THEN [kind |-> "prose"]
      ELSE IF JsonLoads(m, "claude").ok
      THEN [kind |-> "payload", data |-> JsonLoads(m, "claude").data]
      ELSE [kind |-> "malformed"]

\* GeminiContentGenerator._parse_response, lines 193-200: the dict built
\* from the object found, each field with data.get and its default.
ContentOf(data) ==
  [titulo |-> Get(data, "titulo", ""), material |-> Get(data, "material", ""),
   tags |-> Get(data, "tags", << >>)]

\* _fallback_content([], "")
fallback_content ==
  [titulo |-> "Produto Fashion", material |-> "",
   tags |-> <<"fashion", "feminino", "elegante">>]

\* GeminiContentGenerator._parse_response(text)
gemini_parse_response(text) ==
  LET m == ReSearch(text)
  IN  IF m # << >> /\ JsonLoads(m, "gemini").ok
      THEN ContentOf(JsonLoads(m, "gemini").data)
      ELSE fallback_content

\* The candidate the replies are about.
ProdutoDoTexto == [orders |-> 1000, rating |-> 47, price |-> 1200]

InitExtract ==
  /\ script \in {"claude_parse_response", "gemini_parse_response"}
  /\ IdleProgram
  /\ \E t \in Texts : arg = [kind |-> "text", text |-> t]
  /\ ret = NoRet
  /\ NoMining /\ NoFix

\* ClaudeClient._parse_response(text, produto)
ClaudeParseResponse ==
  /\ script = "claude_parse_response" /\ ret = NoRet
  /\ ret' = [kind |-> "parsed", parser |-> "claude",
             value |-> parse_response(OracleOfText(arg.text), ProdutoDoTexto)]
  /\ UNCHANGED <<arg, restVars>>

\* GeminiContentGenerator._parse_response(text)
GeminiParseResponse ==
  /\ script = "gemini_parse_response" /\ ret = NoRet
  /\ ret' = [kind |-> "parsed", parser |-> "gemini",
             value |-> gemini_parse_response(arg.text)]
  /\ UNCHANGED <<arg, restVars>>

NextExtract == ClaudeParseResponse \/ GeminiParseResponse

SpecExtract == InitExtract /\ [][NextExtract]_vars

\* A well-formed object starts at token i of the text.
WellFormedAt(text, i) ==
  /\ i <= Len(text) /\ text[i] = "{"
  /\ \/ i + 1 <= Len(text) /\ text[i + 1] = "}"
     \/ i + 2 <= Len(text) /\ text[i + 1] \in Bodies /\ text[i + 2] = "}"

\* The members of the first well-formed object of the text.
FirstWellFormed(text, parser) ==
  LET at == {i \in 1 .. Len(text) : WellFormedAt(text, i)}
      i  == CHOOSE i \in at : \A j \in at : i <= j
  IN  IF text[i + 1] = "}" THEN << >> ELSE BodyData(text[i + 1], parser)

\* What the parser returns for an object with these members.
ValueOf(data, parser) ==
  IF parser = "claude"
  THEN parse_response([kind |-> "payload", data |-> data], ProdutoDoTexto)
  ELSE ContentOf(data)

\* C25: when the reply holds a well-formed object, in prose or followed by
\* other fragments, the parser returns the values of the first well-formed
\* object, not the fallback.
C25_FirstWellFormedFragment ==
  (ret.kind = "parsed"
     /\ \E i \in 1 .. Len(arg.text) : WellFormedAt(arg.text, i)) =>
    ret.value = ValueOf(FirstWellFormed(arg.text, ret.parser), ret.parser)

\* The part that holds: one object wrapped in prose is found.
WrappedInProse ==
  (ret.kind = "parsed"
     /\ \E b \in Bodies :
          arg.text \in {<<"prose", "{", b, "}">>, <<"{", b, "}", "prose">>,
                        <<"prose", "{", b, "}", "prose">>}) =>
    ret.value = ValueOf(FirstWellFormed(arg.text, ret.parser), ret.parser)

\* C26: the persisted ledger only grows: after every ledger write of a run,
\* the file still holds every id it held when the run started, also in a
\* run with --reprocessar and --limite.
C26_LedgerOnlyGrows ==
  (script = "processar_v3" /\ runNo > 0 /\ ledgerFile.state = "valid") =>
    ledgerAtStart \subseteq ledgerFile.ids

\* C27: when replace_product_images has returned True, the images of the
\* product are exactly the new images in the order given; no image that
\* was there before remains.
C27_ReplaceLeavesOnlyNew ==
  imagesUpdated = "true" => images = [i \in 1 .. nNew |-> NewImageId(i)]

\* ---------------------------------------------------------------------
\* corrigir_precos.py: fixed prices by category.  Prices are in cents.
\* ---------------------------------------------------------------------

MaxPriceRuns == 2

\* PRECOS, in the order of the dict: category, price, compare-at price.
PRECOS ==
  << <<"brincos", 8990, 12990>>, <<"colares", 11990, 16990>>,
     <<"pulseiras", 9990, 13990>>, <<"aneis", 7990, 10990>>,
     <<"anéis", 7990, 10990>>, <<"relogios", 18990, 26990>>,
     <<"relógios", 18990, 26990>>, <<"oculos", 12990, 17990>>,
     <<"óculos", 12990, 17990>>, <<"bolsas", 19990, 27990>>,
     <<"carteiras", 8990, 12990>>, <<"acessorios", 9990, 13990>>,
     <<"acessórios", 9990, 13990>> >>

\* The products of the shop and the product_type of each.
PriceProducts == {1, 2}
TipoDe(p) == IF p = 1 THEN "Brincos" ELSE "Chapéus"

\* product_type.lower() and `cat in pt_lower` for the types of the model.
TipoLower(t) == IF t = "Brincos" THEN "brincos" ELSE "chapéus"
CatInTipo(cat, pt_lower) == cat = pt_lower

\* obter_preco_categoria(product_type)[0]: the price of the first category
\* found in the type, 99.90 when none is.
obter_preco_categoria(product_type) ==
  LET hits == {i \in 1 .. Len(PRECOS) :
                 CatInTipo(PRECOS[i][1], TipoLower(product_type))}
  IN  IF hits = {} THEN 9990
      ELSE PRECOS[CHOOSE i \in hits : \A j \in hits : i <= j][2]

\* abs(preco_novo - preco_atual) < 5
PertoDoPreco(preco_novo, preco_atual) ==
  preco_novo - preco_atual < 500 /\ preco_atual - preco_novo < 500

\* lines 82-87: the product is skipped on the price of variants[0].
JaCorreto(variants, preco_novo) == PertoDoPreco(preco_novo, variants[1])

\* The prices a variant can have before the first run.
PriceVocab == {8700, 8990, 9990, 15000}
VariantPrices == UNION {[1 .. n -> PriceVocab] : n \in 0 .. MaxVariants}

\* main moves to the next product, or ends.
ProximoCpc == IF cidx < Len(listados) THEN "produto" ELSE "done"
ProximoCidx == IF cidx < Len(listados) THEN cidx + 1 ELSE cidx

InitPrecos ==
  /\ script = "corrigir_precos"
  /\ IdleProgram
  /\ arg = NoArg /\ ret = NoRet /\ NoMining
  /\ precos \in [PriceProducts -> VariantPrices]
  /\ listados = << >> /\ cpc = "idle" /\ cidx = 0 /\ cv = 0
  /\ relatorio = [p \in PriceProducts |-> "none"]
  /\ putFalhou = FALSE /\ parcial = {} /\ crun = 0

\* main, lines 107-119: a run of the script starts with get_all_products.
CorrigirPrecosMain ==
  /\ script = "corrigir_precos" /\ cpc \in {"idle", "done", "raised"}
  /\ crun < MaxPriceRuns
  /\ crun' = crun + 1
  /\ listados' = << >>
  /\ url' = 1
  /\ cpc' = "listing" /\ cidx' = 0 /\ cv' = 0
  /\ relatorio' = [p \in PriceProducts |-> "none"]
  /\ putFalhou' = FALSE
  /\ alive' = TRUE /\ stopCause' = "none"
  /\ UNCHANGED <<script, pc, lpc, lprod, attempt, waited, throttleAt,
                 batchVars, imgVars, arg, ret, mineVars, precos, parcial>>

\* The products of page u, with the prices they have now, and the page the
\* Link header names after it (0: no rel="next").
PricePage(u) ==
  [i \in 1 .. (IF u * PageSize <= Cardinality(PriceProducts)
                 THEN PageSize
                 ELSE Cardinality(PriceProducts) - (u - 1) * PageSize)
     |-> precos[(u - 1) * PageSize + i]]
PriceNextLink(u) == IF u * PageSize < Cardinality(PriceProducts) THEN u + 1 ELSE 0

\* main goes from the listing into the for loop, which has no iteration
\* when no product was listed.
CpcAposListar(lista) == IF Len(lista) > 0 THEN "produto" ELSE "done"
CidxAposListar(lista) == IF Len(lista) > 0 THEN 1 ELSE 0

\* get_all_products, lines 37-60: one round of the while loop.  200 adds
\* the page and follows the Link header; 429 sleeps 30 s and asks for the
\* same url again, without a bound; any other status leaves the loop with
\* the products collected so far; requests.get can raise, and nothing in
\* main catches it.
CorrigirPrecosGetAllProducts ==
  /\ script = "corrigir_precos" /\ alive /\ cpc = "listing"
  /\ \E st \in Answers :
       \/ /\ st = "200"
          /\ listados' = listados \o PricePage(url)
          /\ url' = PriceNextLink(url)
          /\ IF PriceNextLink(url) = 0
               THEN /\ cpc' = CpcAposListar(listados \o PricePage(url))
                    /\ cidx' = CidxAposListar(listados \o PricePage(url))
               ELSE UNCHANGED <<cpc, cidx>>
          /\ UNCHANGED <<waited, alive, stopCause>>
       \/ /\ st = "429"
          /\ waited' = (waited + 1) % (MaxWaited + 1)
          /\ UNCHANGED <<listados, url, cpc, cidx, alive, stopCause>>
       \/ /\ st = "500"
          /\ cpc' = CpcAposListar(listados)
          /\ cidx' = CidxAposListar(listados)
          /\ UNCHANGED <<listados, url, waited, alive, stopCause>>
       \/ /\ st = "exc"
          /\ cpc' = "raised" /\ alive' = FALSE /\ stopCause' = "exception"
          /\ UNCHANGED <<listados, url, waited, cidx>>
  /\ UNCHANGED <<script, pc, lpc, lprod, attempt, throttleAt, batchVars,
                 imgVars, arg, ret, mineVars, precos, cv, relatorio,
                 putFalhou, parcial, crun>>

\* corrigir_precos, lines 75-87, and main, lines 129-136.
CorrigirPrecos ==
  /\ script = "corrigir_precos" /\ alive /\ cpc = "produto"
  /\ IF listados[cidx] = << >>
       THEN /\ relatorio' = [relatorio EXCEPT ![cidx] = "erro"]
            /\ cpc' = ProximoCpc /\ cidx' = ProximoCidx /\ cv' = 0
     ELSE IF JaCorreto(listados[cidx], obter_preco_categoria(TipoDe(cidx)))
       THEN /\ relatorio' = [relatorio EXCEPT ![cidx] = "ok"]
            /\ cpc' = ProximoCpc /\ cidx' = ProximoCidx /\ cv' = 0
     ELSE /\ cpc' = "put" /\ cv' = 1
          /\ UNCHANGED <<relatorio, cidx>>
  /\ UNCHANGED <<procVars, listVars, batchVars, imgVars, arg, ret, mineVars,
                 precos, listados, putFalhou, parcial, crun>>

\* corrigir_precos, lines 90-105: one variant PUT.  A status other than 200
\* leaves the function with the later variants untouched; requests.put can
\* raise, and nothing in main catches it.
CorrigirPrecosPut ==
  /\ script = "corrigir_precos" /\ alive /\ cpc = "put"
  /\ \E r \in {"200", "500", "exc"} :
       IF r = "200"
         THEN /\ precos' = [precos EXCEPT ![cidx][cv] =
                              obter_preco_categoria(TipoDe(cidx))]
              /\ IF cv < Len(listados[cidx])
                   THEN /\ cv' = cv + 1
                        /\ UNCHANGED <<cpc, cidx, relatorio>>
                   ELSE /\ relatorio' = [relatorio EXCEPT ![cidx] = "corrigido"]
                        /\ cpc' = ProximoCpc /\ cidx' = ProximoCidx /\ cv' = 0
              /\ parcial' = IF cv < Len(listados[cidx]) THEN parcial
                            ELSE parcial \ {cidx}
              /\ UNCHANGED <<putFalhou, alive, stopCause>>
       ELSE IF r = "500"
         THEN /\ relatorio' = [relatorio EXCEPT ![cidx] = "erro"]
              /\ putFalhou' = TRUE
              /\ parcial' = IF cv > 1 THEN parcial \cup {cidx} ELSE parcial
              /\ cpc' = ProximoCpc /\ cidx' = ProximoCidx /\ cv' = 0
              /\ UNCHANGED <<precos, alive, stopCause>>
       ELSE /\ cpc' = "raised" /\ alive' = FALSE /\ stopCause' = "exception"
            /\ putFalhou' = TRUE
            /\ parcial' = IF cv > 1 THEN parcial \cup {cidx} ELSE parcial
            /\ UNCHANGED <<precos, relatorio, cidx, cv>>
  /\ UNCHANGED <<script, pc, listVars, batchVars, imgVars, arg, ret, mineVars,
                 listados, crun>>

NextPrecos ==
  \/ CorrigirPrecosMain
  \/ CorrigirPrecosGetAllProducts
  \/ CorrigirPrecos
  \/ CorrigirPrecosPut

SpecPrecos == InitPrecos /\ [][NextPrecos]_vars

\* Every variant of the product carries the price of its category, within
\* the tolerance of the script.
TodasNoPreco(p) ==
  \A k \in 1 .. Len(precos[p]) :
    PertoDoPreco(obter_preco_categoria(TipoDe(p)), precos[p][k])

\* A product counted as already OK has every variant at the category price.
OkOnlyWhenAllPriced ==
  (script = "corrigir_precos" /\ cpc = "done") =>
    \A p \in PriceProducts : relatorio[p] = "ok" => TodasNoPreco(p)

\* get_all_products returned every product of the shop.
ListagemCompleta == Len(listados) = Cardinality(PriceProducts)

\* At the end of a run in which the listing was complete and no PUT failed,
\* every product that an earlier run left partly updated has every variant
\* at the category price.
ConvergesAfterPartialFailure ==
  (script = "corrigir_precos" /\ cpc = "done" /\ ListagemCompleta
     /\ ~putFalhou) =>
    \A p \in parcial : TodasNoPreco(p)

\* C28: price correction converges after a partial failure, and a product
\* is counted as already OK only when all its variants carry the category
\* price.
C28_PartialFailureConverges ==
  ConvergesAfterPartialFailure /\ OkOnlyWhenAllPriced

\* C29: after corrigir_tags has updated a product (PUT answered 200), the
\* tags hold exactly one tag starting with cat:, the one of the product
\* type, with the other tags kept in their order; and corrigir_tags on the
\* product so left issues no remote call.
C29_TagCorrectionIdempotent ==
  /\ (script = "corrigir_tags" /\ ret.kind = "tags" /\ ret.written
        /\ ret.status = "200") =>
       /\ \E j \in 1 .. Len(ret.lista) :
            /\ ret.lista[j] = TYPE_TO_CAT(LowerStrip(arg.product_type))
            /\ \A k \in 1 .. Len(ret.lista) :
                 StartsWithCat(ret.lista[k]) => k = j
       /\ SelectSeq(ret.lista, LAMBDA t : ~StartsWithCat(t))
            = SelectSeq(arg.tags, LAMBDA t : ~StartsWithCat(t))
  /\ (ret.kind = "tags_de_novo" /\ ret.antes.written
        /\ ret.antes.status = "200") => ~ret.written

\* A product of type aneis tagged cat:brincos and moda was updated, and
\* corrigir_tags was applied to it again.
C29_Witness ==
  /\ ret.kind = "tags_de_novo"
  /\ ret.antes.written /\ ret.antes.status = "200"
  /\ arg.product_type = " aneis " /\ arg.tags = <<"cat:brincos", "moda">>
  /\ ret.antes.lista = <<"cat:aneis", "moda">>

====
